---- MODULE Spec2Model ----
(***************************************************************************)
(* Gateway trading & liquidity adapter (routers/gateway_trading.py) over   *)
(* the gateway HTTP client (services/gateway_client.py).                   *)
(*                                                                         *)
(* A handler is suspended only at its awaits on the gateway client, so a   *)
(* Return action below is the code that runs between two awaits: it        *)
(* consumes the upstream answer of the call in flight and runs the handler *)
(* up to its next client call, or up to its return / raise; Issue is that  *)
(* client call going out.                                                  *)
(*                                                                         *)
(* Spec follows one handler invocation at a time, over every request and   *)
(* upstream answer.  ClientSpec runs the same handlers as concurrent tasks *)
(* sharing the one GatewayClient, together with its close().  TextSpec     *)
(* applies the name and identifier conversions of routers/gateway.py and   *)
(* parse_network_id to bounded sets of texts.  ServiceSpec follows the     *)
(* calls of GatewayService against the Docker daemon.                      *)
(*                                                                         *)
(* Text that the code parses (network_id, trading_pair, chain and token    *)
(* symbols) is a sequence of one-character strings; opaque text (wallet,   *)
(* pool and position addresses, transaction hashes) is a TLA+ string.      *)
(* A Python Optional is None (<<>>) or Some(v) (<<v>>).                    *)
(***************************************************************************)
EXTENDS Integers, Sequences, FiniteSets, TLC

VARIABLES
    session,    \* the sessions GatewayClient created, oldest first, each "open"
                \* or "closed"; GatewayClient._session is the last one, None
                \* when there is none
    pc,         \* "idle", "call" (at a client call), the call in flight, "done"
    req,        \* the request object the handler was invoked with
    loc,        \* the handler's local variables
    pending,    \* the client call the handler stands at: <<>> or <<request>>
    sent,       \* gateway requests issued by this invocation, in order
    resp,       \* the upstream answer consumed last
    result,     \* what the handler returned or raised
    tasks,      \* ClientSpec: the concurrent handler invocations
    text,       \* TextSpec: the conversions applied so far, each with its
                \* argument and its outcome
    docker      \* ServiceSpec: the containers named "gateway" of the Docker
                \* daemon, the data directory and the last call served

vars ==
    <<session, pc, req, loc, pending, sent, resp, result, tasks, text, docker>>

---------------------------------------------------------------------------
(* Bounds of the exploration *)

MaxIdLen == 3        \* longest network_id explored
MaxPairLen == 3      \* longest trading_pair explored
MaxWallets == 2      \* longest wallet list upstream answers with
MaxPools == 2        \* longest pool list upstream answers with
MaxPrice == 2        \* largest price / bound explored
MaxPositions == 2    \* longest positions list upstream answers with
MaxSessions == 1     \* close() is followed up to this many sessions
MaxComponents == 3   \* most components of a configuration key explored
MaxNetworks == 2     \* most networks upstream lists for one chain
MaxChains == 1       \* most chains upstream lists
MaxCreated == 3      \* containers the Docker daemon creates in one behaviour
MaxUpdates == 3      \* most keys of one configuration update
MaxKeys == 3         \* most keys of one object of an upstream response

---------------------------------------------------------------------------
(* Python values *)

None == <<>>
Some(v) == <<v>>
IsNone(o) == Len(o) = 0
Val(o) == o[1]
Option(S) == {None} \cup {Some(v) : v \in S}

\* truthiness of an Optional[str]: None and "" are falsy
TruthyStr(o) == ~IsNone(o) /\ Val(o) # ""

\* `a or b` on Optional[str]
OrStr(a, b) == IF TruthyStr(a) THEN a ELSE b

\* a JSON member read from an upstream object: key absent, null, or a number
JAbsent == [t |-> "absent", v |-> 0]
JNull == [t |-> "null", v |-> 0]
JNum(n) == [t |-> "num", v |-> n]
JValues(S) == {JAbsent, JNull} \cup {JNum(n) : n \in S}

SeqsUpTo(S, n) == UNION {[1..k -> S] : k \in 0..n}

---------------------------------------------------------------------------
(* Text *)

Hyphen == "-"

\* position of the first hyphen of s, 0 when there is none
FirstHyphen(s) ==
    IF \E i \in 1..Len(s) : s[i] = Hyphen
    THEN CHOOSE i \in 1..Len(s) : s[i] = Hyphen /\ \A j \in 1..(i-1) : s[j] # Hyphen
    ELSE 0

\* str.split('-', 1)
SplitFirst(s) ==
    LET i == FirstHyphen(s) IN
    IF i = 0 THEN <<s>>
    ELSE <<SubSeq(s, 1, i-1), SubSeq(s, i+1, Len(s))>>

\* str.split("-")
RECURSIVE SplitAll(_)
SplitAll(s) ==
    LET i == FirstHyphen(s) IN
    IF i = 0 THEN <<s>>
    ELSE <<SubSeq(s, 1, i-1)>> \o SplitAll(SubSeq(s, i+1, Len(s)))

\* parse_network_id with the split limit dropped: splits at every hyphen
parse_network_id_SplitsAll(network_id) ==
    LET parts == SplitAll(network_id) IN
    IF Len(parts) < 2 THEN [ok |-> FALSE, chain |-> <<>>, network |-> <<>>]
    ELSE [ok |-> TRUE, chain |-> parts[1], network |-> parts[2]]

\* parse_network_id: ok = FALSE stands for the ValueError it raises
parse_network_id(network_id) ==
    LET parts == SplitFirst(network_id) IN
    IF Len(parts) # 2 THEN [ok |-> FALSE, chain |-> <<>>, network |-> <<>>]
    ELSE [ok |-> TRUE, chain |-> parts[1], network |-> parts[2]]

\* `base, quote = request.trading_pair.split("-")`: unpacking anything but
\* two parts raises ValueError
split_trading_pair(trading_pair) ==
    LET parts == SplitAll(trading_pair) IN
    IF Len(parts) # 2 THEN [ok |-> FALSE, base |-> <<>>, quote |-> <<>>]
    ELSE [ok |-> TRUE, base |-> parts[1], quote |-> parts[2]]

\* the cased characters of the texts explored, lower and upper case aligned
LowerChars ==
    <<"a", "b", "c", "d", "e", "f", "g", "h", "i", "j", "k", "l", "m",
      "n", "o", "p", "q", "r", "s", "t", "u", "v", "w", "x", "y", "z">>
UpperChars ==
    <<"A", "B", "C", "D", "E", "F", "G", "H", "I", "J", "K", "L", "M",
      "N", "O", "P", "Q", "R", "S", "T", "U", "V", "W", "X", "Y", "Z">>

IsLower(c) == \E i \in DOMAIN LowerChars : LowerChars[i] = c
IsUpper(c) == \E i \in DOMAIN UpperChars : UpperChars[i] = c
IsDigit(c) == c \in {"0", "1", "2"}

char_upper(c) ==
    IF IsLower(c) THEN UpperChars[CHOOSE i \in DOMAIN LowerChars : LowerChars[i] = c]
    ELSE c
char_lower(c) ==
    IF IsUpper(c) THEN LowerChars[CHOOSE i \in DOMAIN UpperChars : UpperChars[i] = c]
    ELSE c

\* str.upper, str.lower
str_upper(s) == [i \in 1..Len(s) |-> char_upper(s[i])]
str_lower(s) == [i \in 1..Len(s) |-> char_lower(s[i])]

\* str.title: a cased character is upper-cased when it follows no cased
\* character, lower-cased when it follows one
str_title(s) ==
    [i \in 1..Len(s) |->
        IF i > 1 /\ (IsLower(s[i-1]) \/ IsUpper(s[i-1]))
        THEN char_lower(s[i]) ELSE char_upper(s[i])]

Underscore == "_"

\* str.split('_')
RECURSIVE split_underscore(_)
split_underscore(s) ==
    IF \E i \in 1..Len(s) : s[i] = Underscore
    THEN LET i == CHOOSE i \in 1..Len(s) :
                    s[i] = Underscore /\ \A j \in 1..(i-1) : s[j] # Underscore
         IN  <<SubSeq(s, 1, i-1)>> \o split_underscore(SubSeq(s, i+1, Len(s)))
    ELSE <<s>>

\* ''.join(parts)
RECURSIVE join(_)
join(parts) == IF parts = <<>> THEN <<>> ELSE parts[1] \o join(Tail(parts))

\* the acronym table of snake_to_camel
acronyms ==
    {<<"u", "r", "l">>, <<"c", "u">>, <<"i", "d">>, <<"a", "p", "i">>,
     <<"r", "p", "c">>, <<"u", "r", "i">>}

\* snake_to_camel with every later component title-cased, acronyms included
snake_to_camel_NoAcronyms(name) ==
    LET components == split_underscore(name) IN
    join([i \in 1..Len(components) |->
            IF i = 1 THEN components[1] ELSE str_title(components[i])])

snake_to_camel(name) ==
    LET components == split_underscore(name)
        result_parts ==
            [i \in 1..Len(components) |->
                IF i = 1 THEN components[1]
                ELSE IF str_lower(components[i]) \in acronyms
                THEN str_upper(components[i])
                ELSE str_title(components[i])]
    IN  join(result_parts)

\* re.sub('(.)([A-Z][a-z]+)', r'\1_\2', s), scanning from position i: a
\* match takes one character, an upper-case letter and the longest run of
\* lower-case letters after it, and the scan goes on behind the match
RECURSIVE sub_word(_, _)
sub_word(s, i) ==
    IF i > Len(s) THEN <<>>
    ELSE IF i + 2 <= Len(s) /\ IsUpper(s[i+1]) /\ IsLower(s[i+2])
    THEN LET j == CHOOSE j \in (i+2)..Len(s) :
                    /\ \A k \in (i+2)..j : IsLower(s[k])
                    /\ j = Len(s) \/ ~IsLower(s[j+1])
         IN  <<s[i], Underscore>> \o SubSeq(s, i+1, j) \o sub_word(s, j+1)
    ELSE <<s[i]>> \o sub_word(s, i+1)

\* re.sub('([a-z0-9])([A-Z])', r'\1_\2', s), scanning from position i
RECURSIVE sub_hump(_, _)
sub_hump(s, i) ==
    IF i > Len(s) THEN <<>>
    ELSE IF i + 1 <= Len(s) /\ (IsLower(s[i]) \/ IsDigit(s[i])) /\ IsUpper(s[i+1])
    THEN <<s[i], Underscore, s[i+1]>> \o sub_hump(s, i+2)
    ELSE <<s[i]>> \o sub_hump(s, i+1)

camel_to_snake(name) == str_lower(sub_hump(sub_word(name, 1), 1))

\* f"{chain}-{network}" of list_networks
compose_network_id(chain, network) == chain \o <<Hyphen>> \o network

\* JSON values: a text s, an object (its items v in the order of the dict)
\* or a list (its elements, as items v with empty keys)
Item(k, v) == [k |-> k, v |-> v]
Str(s) == [t |-> "str", s |-> s, v |-> <<>>]
Dict(items) == [t |-> "dict", s |-> <<>>, v |-> items]
List(elements) ==
    [t |-> "list", s |-> <<>>,
     v |-> [i \in 1..Len(elements) |-> Item(<<>>, elements[i])]]

\* `key in d`, d[key] and d[key] = value on the items of a dict
has_key(items, key) == \E i \in 1..Len(items) : items[i].k = key
dict_get(items, key) == items[CHOOSE i \in 1..Len(items) : items[i].k = key].v
dict_set(items, key, value) ==
    IF has_key(items, key)
    THEN [i \in 1..Len(items) |->
            IF items[i].k = key THEN Item(key, value) ELSE items[i]]
    ELSE Append(items, Item(key, value))

k_baseSymbol == <<"b", "a", "s", "e", "S", "y", "m", "b", "o", "l">>
k_quoteSymbol == <<"q", "u", "o", "t", "e", "S", "y", "m", "b", "o", "l">>
k_base == <<"b", "a", "s", "e">>
k_quote == <<"q", "u", "o", "t", "e">>
k_trading_pair ==
    <<"t", "r", "a", "d", "i", "n", "g", "_", "p", "a", "i", "r">>

\* a value inside an f-string: a text as it is, a container by its repr
format_value(value) == IF value.t = "str" THEN value.s ELSE <<"{", "}">>

\* normalize_gateway_response without the synthesis of trading_pair
with_trading_pair_Never(normalized) == normalized

\* `if "base" in normalized and "quote" in normalized: ...`
with_trading_pair(normalized) ==
    IF has_key(normalized, k_base) /\ has_key(normalized, k_quote)
    THEN dict_set(normalized, k_trading_pair,
                  Str(format_value(dict_get(normalized, k_base)) \o <<Hyphen>>
                      \o format_value(dict_get(normalized, k_quote))))
    ELSE normalized

RECURSIVE normalize_gateway_response(_)
RECURSIVE normalize_items(_, _)

\* the value stored under a converted key: a dict normalized, the dicts of
\* a list normalized, everything else as it is
normalize_nested(value) ==
    IF value.t = "dict" THEN normalize_gateway_response(value)
    ELSE IF value.t = "list"
    THEN List([i \in 1..Len(value.v) |->
                IF value.v[i].v.t = "dict"
                THEN normalize_gateway_response(value.v[i].v)
                ELSE value.v[i].v])
    ELSE value

\* the loop over data.items(), normalized being the dict built so far
normalize_items(items, normalized) ==
    IF items = <<>> THEN normalized
    ELSE LET key == items[1].k
             value == items[1].v
         IN  normalize_items(Tail(items),
                IF key = k_baseSymbol THEN dict_set(normalized, k_base, value)
                ELSE IF key = k_quoteSymbol THEN dict_set(normalized, k_quote, value)
                ELSE dict_set(normalized, camel_to_snake(key), normalize_nested(value)))

normalize_gateway_response(data) ==
    IF data.t = "dict"
    THEN Dict(with_trading_pair(normalize_items(data.v, <<>>)))
    ELSE data

---------------------------------------------------------------------------
(* Caller inputs *)

IdChars == {"s", Hyphen}
PairChars == {"A", "B", Hyphen}

NetworkIds == SeqsUpTo(IdChars, MaxIdLen)
TradingPairs == SeqsUpTo(PairChars, MaxPairLen)

DefaultNetwork == <<"s", "-", "m", "-", "b">>    \* chain s, network m-b
DefaultPair == <<"A", "-", "B">>

Ops == {"quote", "execute", "pool_info", "open", "add", "remove", "close",
        "collect", "owned", "position_info"}
\* handlers whose request model has a trading_pair / a wallet_address field
PairOps == {"quote", "execute", "pool_info", "open"}
WalletOps == {"execute", "open", "add", "remove", "close", "collect", "owned"}
\* handlers whose own endpoint submits a transaction
MutatingOps == {"execute", "open", "add", "remove", "close", "collect"}

WalletArgs == {None, Some(""), Some("W0")}

\* slippage percentages are counted in tenths: 10 is 1.0
slippage_pct_default == 10    \* Field(default=1.0) of the request models
SlippageArgs == JValues({0, 5, slippage_pct_default})
AmountArgs == {1, 2}
TokenAmountArgs == JValues({0, 2})
PriceVals == 1..MaxPrice
WidthVals == {0, 50}

BaseRequest(op) ==
    [op |-> op,
     network |-> DefaultNetwork,
     trading_pair |-> DefaultPair,
     wallet_address |-> IF op \in WalletOps THEN Some("W0") ELSE None,
     lower_price |-> IF op = "open" THEN Some(1) ELSE None,
     upper_price |-> IF op = "open" THEN Some(2) ELSE None,
     price |-> None,
     lower_width_pct |-> None,
     upper_width_pct |-> None,
     position_address |-> "X1",
     slippage_pct |-> JAbsent,    \* as the caller's JSON has it
     base_token_amount |-> JAbsent,
     quote_token_amount |-> JAbsent,
     amount |-> 1]

\* every handler over every network_id and wallet argument
NetworkRequests ==
    {[BaseRequest(op) EXCEPT !.network = n,
                             !.wallet_address = IF op \in WalletOps THEN w ELSE None] :
        op \in Ops, n \in NetworkIds \cup {DefaultNetwork}, w \in WalletArgs}

\* the handlers that take a trading pair, over every trading pair
PairRequests ==
    {[BaseRequest(op) EXCEPT !.trading_pair = p,
                             !.wallet_address = IF op \in WalletOps THEN w ELSE None] :
        op \in PairOps, p \in TradingPairs, w \in {None, Some("W0")}}

\* CLMM open over every combination of price-range parameters
RangeRequests ==
    {[BaseRequest("open") EXCEPT !.lower_price = lo, !.upper_price = up,
                                 !.price = c, !.lower_width_pct = lw,
                                 !.upper_width_pct = uw, !.wallet_address = w] :
        lo \in Option(PriceVals), up \in Option(PriceVals), c \in Option(PriceVals),
        lw \in Option(WidthVals), uw \in Option(WidthVals), w \in {None, Some("W0")}}

\* swap quote over every slippage argument and amount
SlippageRequests ==
    {[BaseRequest("quote") EXCEPT !.slippage_pct = sl, !.amount = am] :
        sl \in SlippageArgs, am \in AmountArgs}

\* swap execute, CLMM open and add-liquidity over every slippage argument
\* and token amounts
LiquidityRequests ==
    {[BaseRequest(op) EXCEPT !.slippage_pct = sl,
                             !.base_token_amount = IF op = "execute" THEN JAbsent ELSE b,
                             !.quote_token_amount = IF op = "execute" THEN JAbsent ELSE q] :
        op \in {"execute", "open", "add"}, sl \in SlippageArgs,
        b \in TokenAmountArgs, q \in TokenAmountArgs}

Requests ==
    NetworkRequests \cup PairRequests \cup RangeRequests \cup SlippageRequests
        \cup LiquidityRequests

NoRequest == [BaseRequest("quote") EXCEPT !.op = "none"]

---------------------------------------------------------------------------
(* Upstream answers.  kind "ok": a success response with a JSON body;      *)
(* "errbody": a non-success response carrying a JSON error object (none of *)
(* the keys the adapter reads); "fail": the request raised in _request     *)
(* (connection failure, or a body response.json() cannot decode).          *)

Kinds == {"ok", "errbody", "fail"}

Answer(to, kind, body) == [to |-> to, kind |-> kind, body |-> body]
NoAnswer == Answer("none", "ok", None)

\* GET / : {"status": "ok"} is kind ok; any other body is errbody
PingAnswers == {Answer("ping", k, None) : k \in Kinds}

\* GET /wallet
WalletEntry(c, as) == [chain |-> Some(c), walletAddresses |-> as]
WalletEntries ==
    {WalletEntry(<<"s">>, as) : as \in {<<>>, <<"W1", "W2">>, <<"W2">>, <<"">>}}
    \cup {WalletEntry(<<"e">>, <<"W3">>)}
WalletAnswers ==
    {Answer("wallet", "ok", ws) : ws \in SeqsUpTo(WalletEntries, MaxWallets)}
    \cup {Answer("wallet", k, <<>>) : k \in {"errbody", "fail"}}

\* GET /pools
Pool(bs, qs, b, q, a) ==
    [baseSymbol |-> bs, quoteSymbol |-> qs, base |-> b, quote |-> q, address |-> a]
PoolEntries ==
    {Pool(Some(<<"A">>), Some(<<"B">>), None, None, Some("P1")),
     Pool(None, None, Some(<<"A">>), Some(<<"B">>), Some("P2")),
     Pool(None, None, Some(<<"A">>), Some(<<"B">>), None),
     Pool(Some(<<"B">>), Some(<<"A">>), None, None, Some("P3")),
     Pool(Some(<<"A">>), None, None, Some(<<"B">>), Some("P4"))}
PoolsAnswers ==
    {Answer("pools", "ok", ps) : ps \in SeqsUpTo(PoolEntries, MaxPools)}
    \cup {Answer("pools", k, <<>>) : k \in {"errbody", "fail"}}

\* the body of a transaction endpoint (execute-swap, open, add, remove,
\* close, collect-fees)
TxBodies(to) ==
    [signature : {None, Some(""), Some("sg")},
     txHash : {None, Some("tx")},
     hash : {None, Some("hs")},
     positionAddress : IF to = "open" THEN {None, Some(""), Some("pa")} ELSE {None},
     position : IF to = "open" THEN {None, Some("pp")} ELSE {None}]
EmptyTx ==
    [signature |-> None, txHash |-> None, hash |-> None,
     positionAddress |-> None, position |-> None]
TxAnswers(to) ==
    {Answer(to, "ok", b) : b \in TxBodies(to)}
    \cup {Answer(to, "errbody", EmptyTx), Answer(to, "fail", EmptyTx)}

\* POST /clmm/liquidity/position, and the items of .../positions
TokenVals == {None, Some(<<>>), Some(<<"A">>)}
Position(p, lo, up, inr, bt, qt, bf, qf) ==
    [price |-> p, lowerPrice |-> lo, upperPrice |-> up, inRange |-> inr,
     baseToken |-> bt, quoteToken |-> qt, baseFeeAmount |-> bf, quoteFeeAmount |-> qf,
     lowerBinId |-> None, upperBinId |-> None]
EmptyPosition ==
    Position(JAbsent, JAbsent, JAbsent, None, None, None, JAbsent, JAbsent)
PriceBodies ==
    {Position(p, lo, up, inr, Some(<<"A">>), Some(<<"B">>), JAbsent, JAbsent) :
        p \in JValues(0..MaxPrice), lo \in JValues(0..MaxPrice),
        up \in JValues(0..MaxPrice), inr \in Option(BOOLEAN)}
TokenBodies ==
    {Position(JNum(1), JNum(1), JNum(2), None, bt, qt, bf, qf) :
        bt \in TokenVals, qt \in TokenVals,
        bf \in JValues({0, 1}), qf \in JValues({0, 1})}
BinBodies ==
    {[Position(JNum(1), JNum(1), JNum(2), None, Some(<<"A">>), Some(<<"B">>),
               JNum(1), JAbsent) EXCEPT !.lowerBinId = lb, !.upperBinId = ub] :
        lb \in {None, Some(0)}, ub \in {None, Some(7)}}
PositionBodies == PriceBodies \cup TokenBodies \cup BinBodies
PositionAnswers ==
    {Answer("position", "ok", b) : b \in PositionBodies}
    \cup {Answer("position", "errbody", EmptyPosition),
          Answer("position", "fail", EmptyPosition)}

\* POST /clmm/liquidity/positions: a bare list, or an object holding it
OwnedItems ==
    {[Position(p, lo, JNum(MaxPrice), v[1], Some(<<"A">>), v[2], JAbsent, JNum(1))
        EXCEPT !.lowerBinId = v[3]] :
        p \in {JAbsent, JNum(1), JNum(MaxPrice + 1)}, lo \in {JNull, JNum(1)},
        v \in {<<None, Some(<<"B">>), None>>, <<Some(TRUE), None, Some(7)>>}}
OwnedBodies ==
    [wrapped : BOOLEAN, positions : SeqsUpTo(OwnedItems, MaxPositions)]
OwnedAnswers ==
    {Answer("positions", "ok", b) : b \in OwnedBodies}
    \cup {Answer("positions", k, [wrapped |-> TRUE, positions |-> <<>>]) :
            k \in {"errbody", "fail"}}

\* GET connectors/{connector}/router/quote-swap
QuoteBodies ==
    [price : JValues({0, 1}), expectedAmount : JValues({0, 1}),
     gasEstimate : JValues({0, 1})]
EmptyQuote == [price |-> JAbsent, expectedAmount |-> JAbsent, gasEstimate |-> JAbsent]
QuoteAnswers ==
    {Answer("quote", "ok", b) : b \in QuoteBodies}
    \cup {Answer("quote", "errbody", EmptyQuote), Answer("quote", "fail", EmptyQuote)}

\* POST /clmm/liquidity/pool
DetailBodies ==
    [binStep : JValues({0, 1}), bin_step : JValues({1}), price : JValues({1})]
EmptyDetail == [binStep |-> JAbsent, bin_step |-> JAbsent, price |-> JAbsent]
DetailAnswers ==
    {Answer("pool_detail", "ok", b) : b \in DetailBodies}
    \cup {Answer("pool_detail", "errbody", EmptyDetail),
          Answer("pool_detail", "fail", EmptyDetail)}

---------------------------------------------------------------------------
(* GatewayClient: the request each client method issues.  The connector,   *)
(* side and amount arguments are passed through unread and are left out of *)
(* the request record.  A key a method leaves out of its payload is None.   *)

GatewayRequest(to) ==
    [to |-> to, network |-> <<>>, address |-> "", poolAddress |-> "",
     positionAddress |-> "", lowerPrice |-> 0, upperPrice |-> 0,
     baseToken |-> <<>>, quoteToken |-> <<>>, slippagePct |-> None,
     baseTokenAmount |-> None, quoteTokenAmount |-> None]

\* _request with a retry: a failed call is issued again
_request_Twice(request) == <<request, request>>

\* _request: one HTTP exchange per call, its exception re-raised
_request(request) == <<request>>

\* the test of _get_session without its `closed` part
no_open_session_IgnoresClosed(s) == s = <<>>

\* self._session is None or self._session.closed
no_open_session(s) == s = <<>> \/ s[Len(s)] = "closed"

\* _get_session that creates a session for every request
_get_session_AlwaysNew(s) == Append(s, "open")

\* _get_session: a session is created when there is none or it is closed
_get_session(s) == IF no_open_session(s) THEN Append(s, "open") ELSE s

\* GatewayClient.close: closes the session when there is one and it is open.
\* ClientSession.close marks the session closed before it first suspends.
client_close(s) ==
    IF ~no_open_session(s) THEN [s EXCEPT ![Len(s)] = "closed"] ELSE s

\* ping that takes any answer for a live gateway
ping_AnyAnswer(a) == TRUE

\* ping: True only for a body whose status is "ok"; False on any exception
ping(a) == a.kind = "ok"

get_wallets == GatewayRequest("wallet")

get_pools(network) == [GatewayRequest("pools") EXCEPT !.network = network]

pool_info(network, pool_address) ==
    [GatewayRequest("pool_detail") EXCEPT !.network = network,
                                          !.poolAddress = pool_address]

\* quote_swap that leaves slippagePct out of the payload
quote_swap_NoSlippage(network, base_asset, quote_asset, slippage_pct) ==
    [GatewayRequest("quote") EXCEPT !.network = network, !.baseToken = base_asset,
                                    !.quoteToken = quote_asset]

\* quote_swap: slippagePct enters the payload when slippage_pct is not None
quote_swap(network, base_asset, quote_asset, slippage_pct) ==
    [GatewayRequest("quote") EXCEPT !.network = network, !.baseToken = base_asset,
                                    !.quoteToken = quote_asset,
                                    !.slippagePct = slippage_pct]

\* execute_swap: slippagePct enters the payload when slippage_pct is not None
execute_swap(network, wallet_address, base_asset, quote_asset, slippage_pct) ==
    [GatewayRequest("execute") EXCEPT !.network = network, !.address = wallet_address,
                                      !.baseToken = base_asset,
                                      !.quoteToken = quote_asset,
                                      !.slippagePct = slippage_pct]

\* clmm_open_position: baseTokenAmount, quoteTokenAmount and slippagePct
\* enter the payload when their argument is not None; str() of an amount
\* writes the same number
clmm_open_position(network, wallet_address, pool_address, lower_price, upper_price, base_token_amount, quote_token_amount, slippage_pct) ==
    [GatewayRequest("open") EXCEPT !.network = network, !.address = wallet_address,
                                   !.poolAddress = pool_address,
                                   !.lowerPrice = lower_price,
                                   !.upperPrice = upper_price,
                                   !.baseTokenAmount = base_token_amount,
                                   !.quoteTokenAmount = quote_token_amount,
                                   !.slippagePct = slippage_pct]

\* clmm_add_liquidity: the same three optional keys
clmm_add_liquidity(network, wallet_address, position_address, base_token_amount, quote_token_amount, slippage_pct) ==
    [GatewayRequest("add") EXCEPT !.network = network, !.address = wallet_address,
                                  !.positionAddress = position_address,
                                  !.baseTokenAmount = base_token_amount,
                                  !.quoteTokenAmount = quote_token_amount,
                                  !.slippagePct = slippage_pct]

\* clmm_remove_liquidity, clmm_close_position, clmm_collect_fees and
\* clmm_position_info: the same payload, another path
clmm_position_call(to, network, wallet_address, position_address) ==
    [GatewayRequest(to) EXCEPT !.network = network, !.address = wallet_address,
                               !.positionAddress = position_address]

clmm_positions_owned(network, wallet_address) ==
    [GatewayRequest("positions") EXCEPT !.network = network,
                                        !.address = wallet_address]

\* the index a `for` loop that stops at its first hit stops at, given the
\* set of indices that are hits; 0 when it runs to the end
FirstIndex(hits) ==
    IF hits = {} THEN 0 ELSE CHOOSE i \in hits : \A j \in hits : i <= j

\* the last hit: where a loop that does not stop ends up
LastIndex(hits) ==
    IF hits = {} THEN 0 ELSE CHOOSE i \in hits : \A j \in hits : j <= i

\* get_default_wallet_address that keeps scanning past a wallet entry of the
\* chain that holds no address
get_default_wallet_address_SkipsEmpty(chain, a) ==
    IF a.kind # "ok" THEN None
    ELSE LET i == FirstIndex({k \in 1..Len(a.body) :
                                /\ a.body[k].chain = Some(chain)
                                /\ Len(a.body[k].walletAddresses) > 0})
         IN  IF i = 0 THEN None ELSE Some(a.body[i].walletAddresses[1])

\* get_default_wallet_address: first address of the first wallet entry of the
\* chain; None when there is none and on any exception (a failed request, or
\* an error object in place of the list)
get_default_wallet_address(chain, a) ==
    IF a.kind # "ok" THEN None
    ELSE LET i == FirstIndex({k \in 1..Len(a.body) : a.body[k].chain = Some(chain)})
         IN  IF i = 0 THEN None
             ELSE LET addresses == a.body[i].walletAddresses
                  IN  IF Len(addresses) > 0 THEN Some(addresses[1]) ELSE None

---------------------------------------------------------------------------
(* gateway_trading.py: what a handler does between two awaits.  A step is  *)
(* the handler's locals, the request it issues next (if any), and what it  *)
(* returned or raised (if it ended).                                       *)

Pct == 100    \* widths are percentages; prices below are in 1/Pct units

LocInit ==
    [chain |-> <<>>, network |-> <<>>, wallet_address |-> "", base |-> <<>>,
     quote |-> <<>>, pool_address |-> "", lower_price |-> 0, upper_price |-> 0,
     base_fee |-> JAbsent, quote_fee |-> JAbsent]

NoResult == [kind |-> "none", status |-> 0, err |-> "", body |-> None]

\* the handler awaits a client call
Await(l, request) ==
    [pc |-> "call", loc |-> l, send |-> _request(request), result |-> NoResult]

\* the handler raises HTTPException(status), directly or through its
\* except clauses; err names the case
Raise(l, status, err) ==
    [pc |-> "done", loc |-> l, send |-> <<>>,
     result |-> [kind |-> "error", status |-> status, err |-> err, body |-> None]]

\* the handler returns its response model
Return(l, body) ==
    [pc |-> "done", loc |-> l, send |-> <<>>,
     result |-> [kind |-> "ok", status |-> 200, err |-> "", body |-> body]]

\* an `except Exception` clause that catches every exception class
except_Exception_CatchesAll(exc) == TRUE

\* the exception classes an `except Exception` clause catches - those of
\* _request, ping, get_default_wallet_address and of every handler:
\* asyncio.CancelledError derives from BaseException, not from Exception
except_Exception(exc) == exc # "CancelledError"

\* the handler's task ends with the CancelledError its await raised
Cancelled(l) ==
    [pc |-> "done", loc |-> l, send |-> <<>>,
     result |-> [kind |-> "cancelled", status |-> 0, err |-> "CancelledError",
                 body |-> None]]

\* `except Exception` around an exception the client re-raised
UpstreamError(l) == Raise(l, 500, "UpstreamError")
\* `except Exception` around an exception the handler's own code raised
\* (AttributeError on a body of the wrong shape, decimal.InvalidOperation)
InternalError(l) == Raise(l, 500, "InternalError")
\* `except ValueError`
MalformedIdentifier(l) == Raise(l, 400, "MalformedIdentifier")

\* get_wallet_address, up to its await: the supplied address when truthy
wallet_given(request) == TruthyStr(request.wallet_address)

\* get_wallet_address, after its await
NoWalletConfigured(l) == Raise(l, 400, "NoWalletConfigured")

PoolMatches(pool, base, quote) ==
    \/ (pool.baseSymbol = Some(base) /\ pool.quoteSymbol = Some(quote))
    \/ (pool.base = Some(base) /\ pool.quote = Some(quote))

\* the pool scan without its break: the last matching pool wins
find_pool_Last(pools, base, quote) ==
    LastIndex({i \in 1..Len(pools) : PoolMatches(pools[i], base, quote)})

\* the pool scan passing over a matching pool that has no address
find_pool_WithAddress(pools, base, quote) ==
    FirstIndex({i \in 1..Len(pools) :
                    PoolMatches(pools[i], base, quote) /\ TruthyStr(pools[i].address)})

\* the pool scan of get_pool_info and open_clmm_position: index of the pool
\* the loop breaks at, 0 when it runs to the end
find_pool(pools, base, quote) ==
    FirstIndex({i \in 1..Len(pools) : PoolMatches(pools[i], base, quote)})

\* the transaction hash with hash preferred over signature
transaction_hash_HashFirst(body) ==
    OrStr(OrStr(body.hash, body.txHash), body.signature)

\* result.get("signature") or result.get("txHash") or result.get("hash")
transaction_hash(body) ==
    OrStr(OrStr(body.signature, body.txHash), body.hash)

\* the position address with position preferred over positionAddress
position_address_PositionFirst(body) ==
    OrStr(body.position, body.positionAddress)

\* result.get("positionAddress") or result.get("position")
position_address(body) ==
    OrStr(body.positionAddress, body.position)

RangeError == [ok |-> FALSE, lower |-> 0, upper |-> 0]

\* the price range with center and widths preferred over explicit bounds
price_range_CenterFirst(request) ==
    IF ~(IsNone(request.price) \/ IsNone(request.lower_width_pct)
            \/ IsNone(request.upper_width_pct))
    THEN [ok |-> TRUE,
          lower |-> Val(request.price) * (Pct - Val(request.lower_width_pct)),
          upper |-> Val(request.price) * (Pct + Val(request.upper_width_pct))]
    ELSE IF IsNone(request.lower_price) \/ IsNone(request.upper_price)
    THEN RangeError
    ELSE [ok |-> TRUE, lower |-> Val(request.lower_price) * Pct,
          upper |-> Val(request.upper_price) * Pct]

\* "Calculate price range" of open_clmm_position, in 1/Pct units:
\* price * (1 -/+ width / 100) is price * (Pct -/+ width) / Pct
price_range(request) ==
    IF IsNone(request.lower_price) \/ IsNone(request.upper_price)
    THEN IF IsNone(request.price) \/ IsNone(request.lower_width_pct)
            \/ IsNone(request.upper_width_pct)
         THEN RangeError
         ELSE [ok |-> TRUE,
               lower |-> Val(request.price) * (Pct - Val(request.lower_width_pct)),
               upper |-> Val(request.price) * (Pct + Val(request.upper_width_pct))]
    ELSE [ok |-> TRUE, lower |-> Val(request.lower_price) * Pct,
          upper |-> Val(request.upper_price) * Pct]

\* the slippage_pct field of a request model built from the caller's JSON:
\* the field default when the key is absent, None for null
field_slippage_pct(j) ==
    IF j.t = "absent" THEN Some(slippage_pct_default)
    ELSE IF j.t = "null" THEN None ELSE Some(j.v)

slippage_fallback == 10    \* the literal 1.0 of the handlers, in tenths

\* the fallback taken for None only: a slippage of 0 is kept
slippage_or_default_KeepsZero(o) ==
    IF ~IsNone(o) THEN Val(o) ELSE slippage_fallback

\* `float(request.slippage_pct) if request.slippage_pct else 1.0` and
\* `request.slippage_pct or Decimal("1.0")`: None and 0 are falsy.  A number
\* of tenths is the same number as Decimal, as float and in JSON.
slippage_or_default(o) ==
    IF ~IsNone(o) /\ Val(o) # 0 THEN Val(o) ELSE slippage_fallback

\* the slippage_pct argument of the client call
slippage_arg(request) ==
    Some(slippage_or_default(field_slippage_pct(request.slippage_pct)))

\* the base_token_amount / quote_token_amount field of a request model:
\* None when the key is absent or null
field_token_amount(j) == IF j.t = "num" THEN Some(j.v) ELSE None

\* `float(request.base_token_amount) if request.base_token_amount else None`:
\* None and 0 are falsy
token_amount_or_none(o) ==
    IF ~IsNone(o) /\ Val(o) # 0 THEN o ELSE None

\* the base_token_amount / quote_token_amount argument of the client call
token_amount_arg(j) == token_amount_or_none(field_token_amount(j))

\* Decimal(str(x.get(key, 0))): 0 for an absent key; raises
\* decimal.InvalidOperation for null
decimal_or_zero(j) ==
    [ok |-> j.t # "null", v |-> IF j.t = "num" THEN j.v ELSE 0]

\* x.get(key) is truthy: present, not null, not zero
truthy(j) == j.t = "num" /\ j.v # 0

\* Decimal(str(x.get(key, 0))) if x.get(key) else Decimal("0")
decimal_if_truthy(j) == IF truthy(j) THEN j.v ELSE 0

\* Decimal(str(x.get(key, 0))) if x.get(key) else None
optional_decimal(j) == IF truthy(j) THEN Some(j.v) ELSE None

\* in_range without the positivity guard
in_range_NoGuard(current_price, lower_price, upper_price) ==
    lower_price <= current_price /\ current_price <= upper_price

\* "Determine if position is in range"
in_range(current_price, lower_price, upper_price) ==
    IF current_price > 0 /\ lower_price > 0 /\ upper_price > 0
    THEN lower_price <= current_price /\ current_price <= upper_price
    ELSE FALSE

\* x.get(key, 0): the member, 0 when the key is absent
get_or_zero(j) == IF j.t = "absent" THEN JNum(0) ELSE j

\* the fee read of collect-fees with base and quote exchanged
fee_snapshot_Swapped(position_info) ==
    [base_fee |-> get_or_zero(position_info.quoteFeeAmount),
     quote_fee |-> get_or_zero(position_info.baseFeeAmount)]

\* "Get position info to check fees before collecting": the two fee amounts
\* collect_fees_from_clmm_position keeps from the position read
fee_snapshot(position_info) ==
    [base_fee |-> get_or_zero(position_info.baseFeeAmount),
     quote_fee |-> get_or_zero(position_info.quoteFeeAmount)]

\* pos.get("baseToken", ""): the text, "" when the key is absent
token(o) == IF IsNone(o) THEN <<>> ELSE Val(o)

\* the CLMMPositionInfo built from one raw upstream position object, by
\* get_clmm_position_info and by the loop of get_clmm_positions_owned;
\* ok = FALSE when a Decimal conversion raises
clmm_position_info(pos, position_address_) ==
    LET base_token == token(pos.baseToken)
        quote_token == token(pos.quoteToken)
        current == decimal_or_zero(pos.price)
        lower_price == decimal_if_truthy(pos.lowerPrice)
        upper_price == decimal_if_truthy(pos.upperPrice)
    IN  [ok |-> current.ok,
         position_address |-> position_address_,
         trading_pair |-> IF base_token # <<>> /\ quote_token # <<>>
                          THEN base_token \o <<Hyphen>> \o quote_token ELSE <<>>,
         base_token |-> base_token,
         quote_token |-> quote_token,
         current_price |-> current.v,
         lower_price |-> lower_price,
         upper_price |-> upper_price,
         base_fee_amount |-> optional_decimal(pos.baseFeeAmount),
         quote_fee_amount |-> optional_decimal(pos.quoteFeeAmount),
         lower_bin_id |-> pos.lowerBinId,
         upper_bin_id |-> pos.upperBinId,
         in_range |-> in_range(current.v, lower_price, upper_price)]

\* positions_data that takes a bare list only
positions_data_ListOnly(body) ==
    IF body.wrapped THEN <<>> ELSE body.positions

\* `result if isinstance(result, list) else result.get("positions", [])`:
\* `positions` of the body is the bare list, or what an object holds under
\* that key - an empty list standing for an object without the key
positions_data(body) ==
    IF ~body.wrapped THEN body.positions
    ELSE LET held == body.positions IN held

\* the CLMMPositionInfo the loop of get_clmm_positions_owned appends for one
\* item of the list; ok = FALSE when a Decimal conversion raises
positions_owned_item(pos) ==
    LET base_token == IF IsNone(pos.baseToken) THEN <<>> ELSE Val(pos.baseToken)
        quote_token == IF IsNone(pos.quoteToken) THEN <<>> ELSE Val(pos.quoteToken)
        trading_pair == IF base_token # <<>> /\ quote_token # <<>>
                        THEN base_token \o <<Hyphen>> \o quote_token ELSE <<>>
        current_price == decimal_or_zero(pos.price)
        lower_price == IF truthy(pos.lowerPrice) THEN pos.lowerPrice.v ELSE 0
        upper_price == IF truthy(pos.upperPrice) THEN pos.upperPrice.v ELSE 0
        in_range_ == IF current_price.v > 0 /\ lower_price > 0 /\ upper_price > 0
                     THEN lower_price <= current_price.v /\ current_price.v <= upper_price
                     ELSE FALSE
    IN  [ok |-> current_price.ok,
         position_address |-> "",
         trading_pair |-> trading_pair,
         base_token |-> base_token,
         quote_token |-> quote_token,
         current_price |-> current_price.v,
         lower_price |-> lower_price,
         upper_price |-> upper_price,
         base_fee_amount |-> IF truthy(pos.baseFeeAmount)
                             THEN Some(pos.baseFeeAmount.v) ELSE None,
         quote_fee_amount |-> IF truthy(pos.quoteFeeAmount)
                              THEN Some(pos.quoteFeeAmount.v) ELSE None,
         lower_bin_id |-> pos.lowerBinId,
         upper_bin_id |-> pos.upperBinId,
         in_range |-> in_range_]

---------------------------------------------------------------------------
(* The handlers.  handler(request, l, at, a): the handler resumes from the *)
(* await `at` with upstream answer a and locals l.                         *)

Unavailable(l) == Raise(l, 503, "UpstreamUnavailable")

\* a shared stretch of handler code ran through: the handler goes on with
\* its next statement
Proceed(l) == [pc |-> "next", loc |-> l, send |-> <<>>, result |-> NoResult]

\* the code every handler runs after its ping: the 503 check and
\* parse_network_id
after_ping(request, a) ==
    IF ~ping(a) THEN Unavailable(LocInit)
    ELSE LET p == parse_network_id(request.network) IN
         IF ~p.ok THEN MalformedIdentifier(LocInit)
         ELSE Proceed([LocInit EXCEPT !.chain = p.chain, !.network = p.network])

\* `wallet_address = await get_wallet_address(...)`, up to the await in it
resolve_wallet(request, l) ==
    IF wallet_given(request)
    THEN Proceed([l EXCEPT !.wallet_address = Val(request.wallet_address)])
    ELSE Await(l, get_wallets)

\* ... and from that await on
wallet_resolved(l, a) ==
    LET default_wallet == get_default_wallet_address(l.chain, a) IN
    IF ~TruthyStr(default_wallet) THEN NoWalletConfigured(l)
    ELSE Proceed([l EXCEPT !.wallet_address = Val(default_wallet)])

\* after_ping, then get_wallet_address up to its await
after_ping_wallet(request, a) ==
    LET st == after_ping(request, a) IN
    IF st.pc = "next" THEN resolve_wallet(request, st.loc) ELSE st

\* the tail of the six transaction handlers: the hash check and the response
submitted(request, l, a, body) ==
    IF a.kind = "fail" THEN UpstreamError(l)
    ELSE LET hash == transaction_hash(a.body) IN
         IF ~TruthyStr(hash) THEN Raise(l, 500, "NoTransactionHash")
         ELSE Return(l, [body EXCEPT !.transaction_hash = Val(hash)])

TxResponse(request) ==
    [transaction_hash |-> "", position_address |-> request.position_address,
     trading_pair |-> request.trading_pair, pool_address |-> "",
     lower_price |-> 0, upper_price |-> 0,
     base_fee_collected |-> None, quote_fee_collected |-> None,
     status |-> "submitted"]

get_swap_quote(request, l, at, a) ==
    IF at = "ping" THEN
        LET st == after_ping(request, a)
            tp == split_trading_pair(request.trading_pair)
        IN  IF st.pc # "next" THEN st
            ELSE IF ~tp.ok THEN MalformedIdentifier(st.loc)
            ELSE Await([st.loc EXCEPT !.base = tp.base, !.quote = tp.quote],
                       quote_swap(st.loc.network, tp.base, tp.quote,
                           Some(slippage_or_default(
                                    field_slippage_pct(request.slippage_pct)))))
    ELSE \* at = "quote"
        IF a.kind = "fail" THEN UpstreamError(l)
        ELSE LET price == decimal_or_zero(a.body.price) IN
             IF ~price.ok THEN InternalError(l)
             ELSE Return(l, [base |-> l.base, quote |-> l.quote, price |-> price.v,
                             amount |-> request.amount,
                             expected_amount |-> optional_decimal(a.body.expectedAmount),
                             slippage_pct |-> slippage_or_default(
                                    field_slippage_pct(request.slippage_pct)),
                             gas_estimate |-> optional_decimal(a.body.gasEstimate)])

execute_swap_handler(request, l, at, a) ==
    LET with_wallet(l1) ==
            LET tp == split_trading_pair(request.trading_pair) IN
            IF ~tp.ok THEN MalformedIdentifier(l1)
            ELSE Await([l1 EXCEPT !.base = tp.base, !.quote = tp.quote],
                       execute_swap(l1.network, l1.wallet_address, tp.base, tp.quote,
                                    slippage_arg(request)))
        st == IF at = "ping" THEN after_ping_wallet(request, a)
              ELSE wallet_resolved(l, a)
    IN  CASE at \in {"ping", "wallet"} ->
                IF st.pc = "next" THEN with_wallet(st.loc) ELSE st
          [] OTHER -> submitted(request, l, a, TxResponse(request))

\* the pool type told by the value of binStep instead of its presence
pool_type_ByValue(body) ==
    IF body.binStep.t = "num" /\ body.binStep.v # 0 THEN "clmm" ELSE "router"

\* `"clmm" if "binStep" in result or "bin_step" in result else "router"`
pool_type(body) ==
    IF body.binStep.t # "absent" \/ body.bin_step.t # "absent"
    THEN "clmm" ELSE "router"

get_pool_info(request, l, at, a) ==
    LET st == after_ping(request, a) IN
    CASE at = "ping" ->
            IF st.pc = "next" THEN Await(st.loc, get_pools(st.loc.network)) ELSE st
      [] at = "pools" ->
            IF a.kind = "fail" THEN UpstreamError(l)
            ELSE LET tp == split_trading_pair(request.trading_pair) IN
                 IF ~tp.ok THEN MalformedIdentifier(l)
                 ELSE IF a.kind = "errbody" THEN InternalError(l)
                 ELSE LET i == find_pool(a.body, tp.base, tp.quote)
                          l1 == [l EXCEPT !.base = tp.base, !.quote = tp.quote]
                      IN  IF i = 0 THEN Raise(l1, 404, "PoolNotFound")
                          ELSE IF ~TruthyStr(a.body[i].address)
                          THEN Raise(l1, 404, "PoolAddressNotFound")
                          ELSE LET addr == Val(a.body[i].address) IN
                               Await([l1 EXCEPT !.pool_address = addr],
                                     pool_info(l1.network, addr))
      [] OTHER -> \* at = "pool_detail"
            IF a.kind = "fail" THEN UpstreamError(l)
            ELSE LET price == decimal_or_zero(a.body.price) IN
                 IF ~price.ok THEN InternalError(l)
                 ELSE Return(l, [type |-> pool_type(a.body),
                                 address |-> l.pool_address,
                                 trading_pair |-> request.trading_pair,
                                 current_price |-> price.v])

open_clmm_position(request, l, at, a) ==
    LET with_wallet(l1) == Await(l1, get_pools(l1.network))
        st == IF at = "ping" THEN after_ping_wallet(request, a)
              ELSE wallet_resolved(l, a)
    IN  CASE at \in {"ping", "wallet"} ->
                IF st.pc = "next" THEN with_wallet(st.loc) ELSE st
          [] at = "pools" ->
                IF a.kind = "fail" THEN UpstreamError(l)
                ELSE LET tp == split_trading_pair(request.trading_pair) IN
                     IF ~tp.ok THEN MalformedIdentifier(l)
                     ELSE IF a.kind = "errbody" THEN InternalError(l)
                     ELSE LET i == find_pool(a.body, tp.base, tp.quote)
                              pool_address_ == IF i = 0 THEN None ELSE a.body[i].address
                              l1 == [l EXCEPT !.base = tp.base, !.quote = tp.quote]
                              range == price_range(request)
                          IN  IF ~TruthyStr(pool_address_)
                              THEN Raise(l1, 404, "PoolNotFound")
                              ELSE IF ~range.ok
                              THEN Raise([l1 EXCEPT !.pool_address = Val(pool_address_)],
                                         400, "ValidationError")
                              ELSE Await([l1 EXCEPT !.pool_address = Val(pool_address_),
                                                    !.lower_price = range.lower,
                                                    !.upper_price = range.upper],
                                         clmm_open_position(l1.network, l1.wallet_address,
                                             Val(pool_address_), range.lower, range.upper,
                                             token_amount_arg(request.base_token_amount),
                                             token_amount_arg(request.quote_token_amount),
                                             slippage_arg(request)))
          [] OTHER -> \* at = "open"
                IF a.kind = "fail" THEN UpstreamError(l)
                ELSE LET hash == transaction_hash(a.body)
                         position == position_address(a.body)
                     IN  IF ~TruthyStr(hash) THEN Raise(l, 500, "NoTransactionHash")
                         ELSE IF ~TruthyStr(position)
                         THEN Raise(l, 500, "NoPositionAddress")
                         ELSE Return(l, [TxResponse(request) EXCEPT
                                            !.transaction_hash = Val(hash),
                                            !.position_address = Val(position),
                                            !.pool_address = l.pool_address,
                                            !.lower_price = l.lower_price,
                                            !.upper_price = l.upper_price])

\* add_liquidity_to_clmm_position, remove_liquidity_from_clmm_position and
\* close_clmm_position: the same code around another client method
clmm_position_transaction(request, l, at, a) ==
    LET with_wallet(l1) ==
            Await(l1, IF request.op = "add"
                      THEN clmm_add_liquidity(l1.network, l1.wallet_address,
                                              request.position_address,
                                              token_amount_arg(request.base_token_amount),
                                              token_amount_arg(request.quote_token_amount),
                                              slippage_arg(request))
                      ELSE clmm_position_call(request.op, l1.network, l1.wallet_address,
                                              request.position_address))
        st == IF at = "ping" THEN after_ping_wallet(request, a)
              ELSE wallet_resolved(l, a)
    IN  CASE at \in {"ping", "wallet"} ->
                IF st.pc = "next" THEN with_wallet(st.loc) ELSE st
          [] OTHER -> submitted(request, l, a, TxResponse(request))

collect_fees_from_clmm_position(request, l, at, a) ==
    LET with_wallet(l1) ==
            Await(l1, clmm_position_call("position", l1.network, l1.wallet_address,
                                         request.position_address))
        st == IF at = "ping" THEN after_ping_wallet(request, a)
              ELSE wallet_resolved(l, a)
    IN  CASE at \in {"ping", "wallet"} ->
                IF st.pc = "next" THEN with_wallet(st.loc) ELSE st
          [] at = "position" ->
                IF a.kind = "fail" THEN UpstreamError(l)
                ELSE Await([l EXCEPT !.base_fee = fee_snapshot(a.body).base_fee,
                                     !.quote_fee = fee_snapshot(a.body).quote_fee],
                           clmm_position_call("collect", l.network, l.wallet_address,
                                              request.position_address))
          [] OTHER -> \* at = "collect"
                submitted(request, l, a,
                    [TxResponse(request) EXCEPT
                        !.base_fee_collected = optional_decimal(l.base_fee),
                        !.quote_fee_collected = optional_decimal(l.quote_fee)])

get_clmm_positions_owned(request, l, at, a) ==
    LET with_wallet(l1) == Await(l1, clmm_positions_owned(l1.network, l1.wallet_address))
        st == IF at = "ping" THEN after_ping_wallet(request, a)
              ELSE wallet_resolved(l, a)
    IN  CASE at \in {"ping", "wallet"} ->
                IF st.pc = "next" THEN with_wallet(st.loc) ELSE st
          [] OTHER -> \* at = "positions"
                IF a.kind = "fail" THEN UpstreamError(l)
                ELSE LET data == positions_data(a.body)
                         positions == [i \in 1..Len(data) |-> positions_owned_item(data[i])]
                     IN  IF \E i \in 1..Len(positions) : ~positions[i].ok
                         THEN InternalError(l)
                         ELSE Return(l, positions)

get_clmm_position_info(request, l, at, a) ==
    LET with_wallet(l1) ==
            Await(l1, clmm_position_call("position", l1.network, l1.wallet_address,
                                         request.position_address))
        st == IF at = "ping" THEN after_ping(request, a) ELSE wallet_resolved(l, a)
    IN  CASE at = "ping" ->
                IF st.pc = "next" THEN Await(st.loc, get_wallets) ELSE st
          [] at = "wallet" ->
                IF st.pc = "next" THEN with_wallet(st.loc) ELSE st
          [] OTHER -> \* at = "position"
                IF a.kind = "fail" THEN UpstreamError(l)
                ELSE LET info == clmm_position_info(a.body, request.position_address) IN
                     IF ~info.ok THEN InternalError(l) ELSE Return(l, info)

\* the route table
Handler(request, l, at, a) ==
    CASE request.op = "quote" -> get_swap_quote(request, l, at, a)
      [] request.op = "execute" -> execute_swap_handler(request, l, at, a)
      [] request.op = "pool_info" -> get_pool_info(request, l, at, a)
      [] request.op = "open" -> open_clmm_position(request, l, at, a)
      [] request.op \in {"add", "remove", "close"} ->
            clmm_position_transaction(request, l, at, a)
      [] request.op = "collect" -> collect_fees_from_clmm_position(request, l, at, a)
      [] request.op = "owned" -> get_clmm_positions_owned(request, l, at, a)
      [] request.op = "position_info" -> get_clmm_position_info(request, l, at, a)

---------------------------------------------------------------------------
(* GatewayService and the Docker daemon it drives.  The daemon keeps the   *)
(* containers named GATEWAY_CONTAINER_NAME; each of its operations either  *)
(* takes effect or raises DockerException, as the outcome o tells.         *)

GatewayConfigs == {"cfgA", "cfgB"}

Container(id, status, config) == [id |-> id, status |-> status, config |-> config]

\* what one call meets at the daemon and in the file system: whether each
\* operation it may perform succeeds
Outcomes ==
    [get : BOOLEAN, get_again : BOOLEAN, remove : BOOLEAN,
     run : {"ok", "create_fails", "start_fails"},
     stop : BOOLEAN, restart : BOOLEAN, rmtree : BOOLEAN]

NoCall ==
    [op |-> "none", config |-> None, success |-> FALSE, message |-> "",
     status |-> 0, created |-> 0, present |-> 0]

\* containers: those named "gateway", in the order of creation;
\* created: the number of containers created so far; data: the
\* gateway-files directory exists
DockerInit == [containers |-> <<>>, created |-> 0, data |-> FALSE, last |-> NoCall]

\* what a service method returns or raises, with the daemon it leaves
\* behind: created is the id of the container it created (0: none), present
\* the number of containers there were when it was created
Outcome(d, success, message, created, present) ==
    [d |-> d, success |-> success, message |-> message,
     created |-> created, present |-> present]

\* _get_gateway_container: the container, None when there is none or when
\* the daemon raises
_get_gateway_container(d, ok) ==
    IF ok /\ d.containers # <<>> THEN Some(d.containers[Len(d.containers)])
    ELSE None

\* container.remove(force=True), having succeeded
removed(d, container) ==
    [d EXCEPT !.containers = SelectSeq(d.containers, LAMBDA c : c.id # container.id)]

\* container.stop() / container.restart(), having succeeded
with_status(d, container, status) ==
    [d EXCEPT !.containers =
        [i \in 1..Len(d.containers) |->
            IF d.containers[i].id = container.id
            THEN [d.containers[i] EXCEPT !.status = status]
            ELSE d.containers[i]]]

\* a daemon that creates a container whatever containers it already keeps
\* under the name
containers_run_AnyName(d, config, how) ==
    IF how = "create_fails" THEN Outcome(d, FALSE, "Failed to start", 0, 0)
    ELSE LET id == d.created + 1
             status == IF how = "ok" THEN "running" ELSE "created"
         IN  Outcome([d EXCEPT !.containers = Append(@, Container(id, status, config)),
                               !.created = id],
                     how = "ok", IF how = "ok" THEN "started" ELSE "Failed to start",
                     id, Len(d.containers))

\* client.containers.run(name="gateway", detach=True, ...) with the except
\* clause of start around it: the daemon refuses a name that is in use,
\* fails to create the container, creates it and fails to start it, or
\* leaves it running
containers_run(d, config, how) ==
    IF d.containers # <<>> \/ how = "create_fails"
    THEN Outcome(d, FALSE, "Failed to start", 0, 0)
    ELSE LET id == d.created + 1
             status == IF how = "ok" THEN "running" ELSE "created"
         IN  Outcome([d EXCEPT !.containers = Append(@, Container(id, status, config)),
                               !.created = id],
                     how = "ok", IF how = "ok" THEN "started" ELSE "Failed to start",
                     id, Len(d.containers))

\* GatewayService.start, get telling whether its _get_gateway_container
\* call gets through; "DockerException" is the exception of remove(), which
\* start does not catch
start(d, config, get, o) ==
    LET existing_container == _get_gateway_container(d, get)
        d1 == [d EXCEPT !.data = TRUE]   \* _ensure_gateway_directories
    IN  IF existing_container # None /\ Val(existing_container).status = "running"
        THEN Outcome(d, FALSE, "already running", 0, 0)
        ELSE IF existing_container # None /\ ~o.remove
        THEN Outcome(d, FALSE, "DockerException", 0, 0)
        ELSE IF existing_container # None
        THEN containers_run(removed(d1, Val(existing_container)), config, o.run)
        ELSE containers_run(d1, config, o.run)

\* GatewayService.stop
stop(d, o) ==
    LET container == _get_gateway_container(d, o.get) IN
    IF container = None THEN Outcome(d, FALSE, "not found", 0, 0)
    ELSE IF Val(container).status # "running" THEN Outcome(d, TRUE, "stopped", 0, 0)
    ELSE IF ~o.stop THEN Outcome(d, FALSE, "Failed to stop", 0, 0)
    ELSE Outcome(with_status(d, Val(container), "exited"), TRUE, "stopped", 0, 0)

\* GatewayService.restart, config being None or the new configuration
restart(d, config, o) ==
    LET container == _get_gateway_container(d, o.get) IN
    IF container = None
    THEN IF config # None THEN start(d, Val(config), o.get_again, o)
         ELSE Outcome(d, FALSE, "not found", 0, 0)
    ELSE IF config # None
    THEN IF ~o.remove THEN Outcome(d, FALSE, "Failed to remove", 0, 0)
         ELSE start(removed(d, Val(container)), Val(config), o.get_again, o)
    ELSE IF ~o.restart THEN Outcome(d, FALSE, "Failed to restart", 0, 0)
    ELSE Outcome(with_status(d, Val(container), "running"), TRUE, "restarted", 0, 0)

\* GatewayService.remove
remove(d, remove_data, o) ==
    LET container == _get_gateway_container(d, o.get) IN
    IF container = None
    THEN IF remove_data /\ d.data
         THEN IF o.rmtree
              THEN Outcome([d EXCEPT !.data = FALSE], TRUE, "data removed", 0, 0)
              ELSE Outcome(d, FALSE, "Failed to remove data", 0, 0)
         ELSE Outcome(d, FALSE, "not found", 0, 0)
    ELSE IF ~o.remove THEN Outcome(d, FALSE, "Failed to remove", 0, 0)
    ELSE LET d1 == removed(d, Val(container)) IN
         IF remove_data /\ d.data
         THEN IF o.rmtree
              THEN Outcome([d1 EXCEPT !.data = FALSE], TRUE,
                           "container and data removed", 0, 0)
              ELSE Outcome(d1, FALSE, "failed to remove data", 0, 0)
         ELSE Outcome(d1, TRUE, "container removed", 0, 0)

\* the HTTP status start_gateway and stop_gateway answer with
http_status(r) ==
    IF r.message = "DockerException" THEN 500
    ELSE IF r.success THEN 200
    ELSE IF r.message = "already running" THEN 400
    ELSE IF r.message = "not found" THEN 404
    ELSE 500

---------------------------------------------------------------------------
(* The state machine *)

\* a task of ClientSpec: a handler invocation with the answers it got
IdleTask ==
    [pc |-> "idle", req |-> NoRequest, loc |-> LocInit, pending |-> <<>>,
     sent |-> <<>>, got |-> <<>>, result |-> NoResult]

Tasks == {1, 2}

Init ==
    /\ session = <<>>
    /\ tasks = [p \in Tasks |-> IdleTask]
    /\ text = <<>>
    /\ docker = DockerInit
    /\ pc = "idle"
    /\ req = NoRequest
    /\ loc = LocInit
    /\ pending = <<>>
    /\ sent = <<>>
    /\ resp = NoAnswer
    /\ result = NoResult

\* the handler takes step st, having consumed answer a: it stands at its
\* next client call, or has ended
Take(st, a) ==
    /\ pc' = st.pc
    /\ loc' = st.loc
    /\ pending' = st.send
    /\ result' = st.result
    /\ resp' = a
    /\ UNCHANGED <<session, sent, tasks, text, docker>>

\* the router calls a handler, which runs up to its ping
Invoke ==
    /\ pc = "idle"
    /\ \E r \in Requests :
        /\ req' = r
        /\ Take(Await(LocInit, GatewayRequest("ping")), NoAnswer)

\* GatewayClient._request: the client call the handler stands at goes out
\* on the session, and the handler is suspended until it is answered
Issue ==
    /\ pc = "call"
    /\ session' = _get_session(session)
    /\ sent' = sent \o pending
    /\ pc' = pending[1].to
    /\ pending' = <<>>
    /\ resp' = NoAnswer
    /\ UNCHANGED <<req, loc, result, tasks, text, docker>>

\* the call in flight is answered with a and the handler resumes
Resume(a) ==
    /\ Take(Handler(req, loc, pc, a), a)
    /\ UNCHANGED req

PingReturn ==
    /\ pc = "ping"
    /\ \E a \in PingAnswers : Resume(a)

WalletReturn ==
    /\ pc = "wallet"
    /\ \E a \in WalletAnswers : Resume(a)

PoolsReturn ==
    /\ pc = "pools"
    /\ \E a \in PoolsAnswers : Resume(a)

PoolDetailReturn ==
    /\ pc = "pool_detail"
    /\ \E a \in DetailAnswers : Resume(a)

PositionReturn ==
    /\ pc = "position"
    /\ \E a \in PositionAnswers : Resume(a)

QuoteReturn ==
    /\ pc = "quote"
    /\ \E a \in QuoteAnswers : Resume(a)

PositionsReturn ==
    /\ pc = "positions"
    /\ \E a \in OwnedAnswers : Resume(a)

TransactionReturn ==
    /\ pc \in MutatingOps
    /\ \E a \in TxAnswers(pc) : Resume(a)

\* the calling context is cancelled while the handler is suspended at a
\* client call: the await raises CancelledError inside _request, and every
\* `except Exception` on its way up treats it as it treats any exception it
\* catches, or lets it pass
Cancel ==
    /\ pc \notin {"idle", "call", "done"}
    /\ LET a == Answer(pc, "cancelled", None) IN
       IF except_Exception("CancelledError")
       THEN Take(Handler(req, loc, pc, [a EXCEPT !.kind = "fail"]), a)
       ELSE Take(Cancelled(loc), a)
    /\ UNCHANGED req

\* the response (or the HTTP error) leaves; the invocation's state is dropped
Respond ==
    /\ pc = "done"
    /\ pc' = "idle"
    /\ req' = NoRequest
    /\ loc' = LocInit
    /\ pending' = <<>>
    /\ sent' = <<>>
    /\ resp' = NoAnswer
    /\ result' = NoResult
    /\ UNCHANGED <<session, tasks, text, docker>>

Next ==
    \/ Invoke
    \/ Issue
    \/ PingReturn
    \/ WalletReturn
    \/ PoolsReturn
    \/ PoolDetailReturn
    \/ PositionReturn
    \/ QuoteReturn
    \/ PositionsReturn
    \/ TransactionReturn
    \/ Cancel
    \/ Respond

Spec == Init /\ [][Next]_vars

---------------------------------------------------------------------------
(* ClientSpec: handler invocations as concurrent tasks of the event loop,  *)
(* sharing accounts_service.gateway_client.  A task runs from one await to *)
(* the next without interruption; between two of its steps any other task  *)
(* may run, and close() may be called.                                     *)

TaskRequests ==
    {[BaseRequest("open") EXCEPT !.wallet_address = None],
     [BaseRequest("collect") EXCEPT !.network = <<"e", "-", "m">>,
                                    !.position_address = "X2"]}

TaskAnswers(to) ==
    CASE to = "ping" -> {Answer("ping", k, None) : k \in {"ok", "fail"}}
      [] to = "wallet" ->
            {Answer("wallet", "ok", <<WalletEntry(<<"s">>, <<"W1", "W2">>)>>),
             Answer("wallet", "ok", <<>>)}
      [] to = "pools" ->
            {Answer("pools", "ok",
                    <<Pool(Some(<<"A">>), Some(<<"B">>), None, None, Some(a))>>) :
                a \in {"P1", "P2"}}
      [] to = "position" ->
            {Answer("position", "ok",
                    Position(JNum(1), JNum(1), JNum(2), None, Some(<<"A">>),
                             Some(<<"B">>), JNum(1), JAbsent)),
             Answer("position", "errbody", EmptyPosition)}
      [] OTHER ->
            {Answer(to, "ok", [EmptyTx EXCEPT !.signature = Some("sg"),
                                              !.positionAddress = Some("pa")]),
             Answer(to, "fail", EmptyTx)}

\* the handler's locals kept in one place for all tasks
locals_Shared(all, p) == all[1].loc

\* the locals of task p: the variables of its own coroutine frame
locals(all, p) == all[p].loc

\* the router calls a handler in a task of its own
TaskInvoke ==
    /\ \E p \in Tasks, r \in TaskRequests :
        /\ tasks[p].pc = "idle"
        /\ tasks' = [tasks EXCEPT ![p] =
                        [IdleTask EXCEPT !.pc = "call", !.req = r,
                                         !.pending = _request(GatewayRequest("ping"))]]
    /\ UNCHANGED <<session, pc, req, loc, pending, sent, resp, result, text, docker>>

\* GatewayClient._request in task p
TaskIssue ==
    /\ \E p \in Tasks :
        /\ tasks[p].pc = "call"
        /\ tasks' = [tasks EXCEPT ![p].sent = @ \o tasks[p].pending,
                                  ![p].pc = tasks[p].pending[1].to,
                                  ![p].pending = <<>>]
    /\ session' = _get_session(session)
    /\ UNCHANGED <<pc, req, loc, pending, sent, resp, result, text, docker>>

\* the call task p has in flight is answered and the task resumes
TaskReturn ==
    /\ \E p \in Tasks :
        /\ tasks[p].pc \notin {"idle", "call", "done"}
        /\ \E a \in TaskAnswers(tasks[p].pc) :
            LET st == Handler(tasks[p].req, locals(tasks, p), tasks[p].pc, a) IN
            tasks' = [tasks EXCEPT ![p].pc = st.pc, ![p].loc = st.loc,
                                   ![p].pending = st.send, ![p].result = st.result,
                                   ![p].got = Append(@, a)]
    /\ UNCHANGED <<session, pc, req, loc, pending, sent, resp, result, text, docker>>

TaskRespond ==
    /\ \E p \in Tasks :
        /\ tasks[p].pc = "done"
        /\ tasks' = [tasks EXCEPT ![p] = IdleTask]
    /\ UNCHANGED <<session, pc, req, loc, pending, sent, resp, result, text, docker>>

\* GatewayClient.close, called at any time
close ==
    /\ Len(session) <= MaxSessions
    /\ session' = client_close(session)
    /\ UNCHANGED <<pc, req, loc, pending, sent, resp, result, tasks, text, docker>>

ClientNext ==
    \/ TaskInvoke
    \/ TaskIssue
    \/ TaskReturn
    \/ TaskRespond
    \/ close

ClientSpec == Init /\ [][ClientNext]_vars

---------------------------------------------------------------------------
(* TextSpec: the conversions of names and identifiers, applied to bounded  *)
(* sets of texts.  text records each application.                          *)

\* the components configuration keys are put together from: the acronyms,
\* plain words, a word with a digit, a capitalised acronym and the empty
\* component
NameParts ==
    acronyms \cup {<<"a">>, <<"b", "i", "n">>, <<"b", "2", "c">>,
                   <<"U", "r", "l">>, <<>>}

\* '_'.join(parts)
RECURSIVE join_underscore(_)
join_underscore(parts) ==
    IF Len(parts) = 1 THEN parts[1]
    ELSE parts[1] \o <<Underscore>> \o join_underscore(Tail(parts))

Names == {join_underscore(parts) : parts \in SeqsUpTo(NameParts, MaxComponents) \ {<<>>}}

\* what config/chains lists: chains, each with its networks
ChainNames == {<<"s">>, <<"s", "-", "x">>, <<>>}
NetworkNames == {<<"m">>, <<"m", "-", "b">>, <<"-">>, <<>>}
ChainItems == [chain : ChainNames, networks : SeqsUpTo(NetworkNames, MaxNetworks)]

\* the answers of get_chains(): a body with the chains, a body without a
\* "chains" key, or an exception
ChainsAnswers ==
    {Answer("chains", "ok", [chains |-> Some(c)]) : c \in SeqsUpTo(ChainItems, MaxChains)}
    \cup {Answer("chains", "ok", [chains |-> None]), Answer("chains", "fail", None)}

\* list_networks with the hyphen of the network id left out
network_item_NoSeparator(chain, network) ==
    [network_id |-> chain \o network, chain |-> chain, network |-> network]

\* the entry list_networks appends for one network of one chain
network_item(chain, network) ==
    [network_id |-> compose_network_id(chain, network),
     chain |-> chain, network |-> network]

\* the two loops of list_networks
RECURSIVE flatten_chains(_)
flatten_chains(chains) ==
    IF chains = <<>> THEN <<>>
    ELSE LET chain == chains[1].chain
             chain_networks == chains[1].networks
         IN  [j \in 1..Len(chain_networks) |-> network_item(chain, chain_networks[j])]
             \o flatten_chains(Tail(chains))

\* list_networks, given the answers of ping() and get_chains()
list_networks(ping_answer, chains_result) ==
    IF ~ping(ping_answer)
    THEN [status |-> 503, networks |-> <<>>, count |-> 0]
    ELSE IF chains_result.kind = "fail"
    THEN [status |-> 500, networks |-> <<>>, count |-> 0]
    ELSE LET networks ==
                IF chains_result.body.chains # None
                THEN flatten_chains(chains_result.body.chains[1])
                ELSE <<>>
         IN  [status |-> 200, networks |-> networks, count |-> Len(networks)]

\* the keys and texts of the upstream objects explored
k_tradingPair == <<"t", "r", "a", "d", "i", "n", "g", "P", "a", "i", "r">>
k_poolId == <<"p", "o", "o", "l", "I", "d">>
k_poolInfo == <<"p", "o", "o", "l", "I", "n", "f", "o">>
ResponseKeys == {k_baseSymbol, k_quoteSymbol, k_base, k_quote, k_tradingPair, k_poolId}
Texts == {Str(<<"A">>), Str(<<"B">>)}

\* objects of texts, with distinct keys
FlatObjects ==
    {Dict(items) : items \in
        {q \in SeqsUpTo([k : ResponseKeys, v : Texts], MaxKeys) :
            \A i, j \in 1..Len(q) : q[i].k = q[j].k => i = j}}

\* an object under a key of an object: directly, in a list, behind a text
\* in a list, in a list of a list
Nestings(o) ==
    {o, List(<<o>>), List(<<Str(<<"A">>), o>>), List(<<List(<<o>>)>>)}

\* the bodies upstream answers with that hold the object o
Responses(o) ==
    {o}
    \cup {Dict(<<Item(k_poolInfo, n)>>) : n \in Nestings(o)}
    \cup {Dict(<<Item(k_poolId, Str(<<"A">>)),
                 Item(k_poolInfo, Dict(<<Item(k_poolInfo, o)>>))>>)}

Applied(fn, arg, out) == [fn |-> fn, arg |-> arg, out |-> out]

\* a handler returns normalize_gateway_response(result)
NormalizeResponse ==
    /\ text = <<>>
    /\ \E o \in FlatObjects : \E data \in Responses(o) :
            text' = <<Applied("normalize_gateway_response", data,
                              normalize_gateway_response(data))>>
    /\ UNCHANGED <<session, pc, req, loc, pending, sent, resp, result, tasks, docker>>

\* GET /gateway/networks is served
ListNetworks ==
    /\ text = <<>>
    /\ \E k \in {"ok", "fail"}, chains_result \in ChainsAnswers :
            text' = <<Applied("list_networks", chains_result,
                              list_networks(Answer("ping", k, None), chains_result))>>
    /\ UNCHANGED <<session, pc, req, loc, pending, sent, resp, result, tasks, docker>>

\* a caller passes one listed network_id to a trading operation, which
\* parses it
ParseListed ==
    /\ Len(text) = 1 /\ text[1].fn = "list_networks"
    /\ \E i \in 1..Len(text[1].out.networks) :
            LET item == text[1].out.networks[i] IN
            text' = Append(text, Applied("parse_network_id", item,
                                         parse_network_id(item.network_id)))
    /\ UNCHANGED <<session, pc, req, loc, pending, sent, resp, result, tasks, docker>>

\* a configuration key is converted to the gateway's convention
ToWireCase ==
    /\ text = <<>>
    /\ \E name \in Names :
            text' = <<Applied("snake_to_camel", name, snake_to_camel(name))>>
    /\ UNCHANGED <<session, pc, req, loc, pending, sent, resp, result, tasks, docker>>

\* the converted key is converted back
ToAdapterCase ==
    /\ Len(text) = 1 /\ text[1].fn = "snake_to_camel"
    /\ text' = Append(text, Applied("camel_to_snake", text[1].out,
                                    camel_to_snake(text[1].out)))
    /\ UNCHANGED <<session, pc, req, loc, pending, sent, resp, result, tasks, docker>>

\* the pool lists get_pools() answers with that start with the pool o
PoolLists(o) ==
    {<<o>>,
     <<o, Dict(<<Item(k_baseSymbol, Str(<<"A">>)), Item(k_quoteSymbol, Str(<<"B">>))>>)>>}

\* list_pools, given the answers of ping() and get_pools()
list_pools(ping_answer, pools_result) ==
    IF ~ping(ping_answer) THEN [status |-> 503, body |-> <<>>]
    ELSE IF pools_result.kind = "fail" THEN [status |-> 500, body |-> <<>>]
    ELSE LET pools == pools_result.body IN
         IF pools = <<>> THEN [status |-> 400, body |-> <<>>]
         ELSE [status |-> 200,
               body |-> [i \in 1..Len(pools) |-> normalize_gateway_response(pools[i])]]

\* GET /gateway/pools is served
ListPools ==
    /\ text = <<>>
    /\ \E k \in {"ok", "fail"}, pk \in {"ok", "fail"}, o \in FlatObjects :
        \E pools \in {<<>>} \cup PoolLists(o) :
            /\ pk = "fail" => pools = <<>>
            /\ text' = <<Applied("list_pools", pools,
                                 list_pools(Answer("ping", k, None),
                                            Answer("pools", pk, pools)))>>
    /\ UNCHANGED <<session, pc, req, loc, pending, sent, resp, result, tasks, docker>>

\* the keys of the configuration updates explored: node_url, slippagePct
\* and a_a
ConfigPaths ==
    {<<"n", "o", "d", "e", "_", "u", "r", "l">>,
     <<"s", "l", "i", "p", "p", "a", "g", "e", "P", "c", "t">>,
     <<"a", "_", "a">>}

\* config_updates: a mapping, its keys in order, each with a value
ConfigUpdates ==
    {q \in SeqsUpTo([path : ConfigPaths, value : {"v"}], MaxUpdates) :
        \A i, j \in 1..Len(q) : q[i].path = q[j].path => i = j}

\* `snake_to_camel(path) if '_' in path else path`
camel_path(path) ==
    IF \E i \in 1..Len(path) : path[i] = Underscore THEN snake_to_camel(path)
    ELSE path

\* GatewayClient.update_config
update_config(namespace, path, value) ==
    [to |-> "config/update", namespace |-> namespace, path |-> path, value |-> value]

\* the loop of the three update handlers over config_updates.items():
\* answers[i] is what upstream does with the i-th request, issued the
\* requests sent so far, results the bodies collected so far
RECURSIVE update_loop(_, _, _, _, _)
update_loop(namespace, items, answers, issued, results) ==
    IF items = <<>>
    THEN [status |-> 200, sent |-> issued, count |-> Len(results), results |-> results]
    ELSE LET request == update_config(namespace, camel_path(items[1].path), items[1].value)
         IN  IF answers[1] = "fail"
             THEN [status |-> 500, sent |-> Append(issued, request), count |-> 0,
                   results |-> <<>>]
             ELSE update_loop(namespace, Tail(items), Tail(answers),
                              Append(issued, request), Append(results, answers[1]))

\* update_connector_config, update_chain_config and update_network_config,
\* given the answers of ping() and of the update requests
update_config_handler(namespace, ping_answer, config_updates, answers) ==
    IF ~ping(ping_answer)
    THEN [status |-> 503, sent |-> <<>>, count |-> 0, results |-> <<>>]
    ELSE update_loop(namespace, config_updates, answers, <<>>, <<>>)

\* POST /gateway/connectors/{connector_name}, /gateway/chains/{chain} or
\* /gateway/networks/{network_id} is served
UpdateConfig ==
    /\ text = <<>>
    /\ \E namespace \in {"connector", "chain", "network_id"}, k \in {"ok", "fail"},
          config_updates \in ConfigUpdates :
        \E answers \in [1..Len(config_updates) -> Kinds] :
            text' = <<Applied("update_config",
                        [namespace |-> namespace, ping |-> k,
                         config_updates |-> config_updates, answers |-> answers],
                        update_config_handler(namespace, Answer("ping", k, None),
                                              config_updates, answers))>>
    /\ UNCHANGED <<session, pc, req, loc, pending, sent, resp, result, tasks, docker>>

TextNext ==
    \/ ListNetworks \/ ParseListed \/ ToWireCase \/ ToAdapterCase
    \/ NormalizeResponse \/ ListPools \/ UpdateConfig

TextSpec == Init /\ [][TextNext]_vars

---------------------------------------------------------------------------
(* ServiceSpec: the calls of GatewayService, one at a time (the endpoints  *)
(* call the service without awaiting anything).                            *)

\* the daemon and the call record a call leaves behind
Served(op, config, r) ==
    [r.d EXCEPT !.last =
        [op |-> op, config |-> config, success |-> r.success,
         message |-> r.message, status |-> http_status(r),
         created |-> r.created, present |-> r.present]]

\* POST /gateway/start
start_gateway ==
    /\ docker.created < MaxCreated
    /\ \E config \in GatewayConfigs, o \in Outcomes :
            docker' = Served("start", Some(config), start(docker, config, o.get, o))
    /\ UNCHANGED <<session, pc, req, loc, pending, sent, resp, result, tasks, text>>

\* POST /gateway/stop
stop_gateway ==
    /\ \E o \in Outcomes : docker' = Served("stop", None, stop(docker, o))
    /\ UNCHANGED <<session, pc, req, loc, pending, sent, resp, result, tasks, text>>

\* GatewayService.restart is called
Restart ==
    /\ docker.created < MaxCreated
    /\ \E config \in Option(GatewayConfigs), o \in Outcomes :
            docker' = Served("restart", config, restart(docker, config, o))
    /\ UNCHANGED <<session, pc, req, loc, pending, sent, resp, result, tasks, text>>

\* GatewayService.remove is called
Remove ==
    /\ \E remove_data \in BOOLEAN, o \in Outcomes :
            docker' = Served("remove", None, remove(docker, remove_data, o))
    /\ UNCHANGED <<session, pc, req, loc, pending, sent, resp, result, tasks, text>>

ServiceNext == start_gateway \/ stop_gateway \/ Restart \/ Remove

ServiceSpec == Init /\ [][ServiceNext]_vars

---------------------------------------------------------------------------
(* Vocabulary of the properties *)

\* every request of this invocation that went out or is about to
Issued == sent \o pending
IssuedTo(to) == \E i \in 1..Len(Issued) : Issued[i].to = to

\* the endpoint a handler exists to call
OwnEndpoint(op) ==
    CASE op = "pool_info" -> "pool_detail"
      [] op = "owned" -> "positions"
      [] op = "position_info" -> "position"
      [] OTHER -> op

\* the handler has ended
Done == pc = "done"
Failed(status, err) ==
    Done /\ result.kind = "error" /\ result.status = status /\ result.err = err
    /\ pending = <<>>

---------------------------------------------------------------------------
\* C1: in every operation the liveness ping is the first gateway request, and
\* when it answers false (a body whose status is not "ok", or an exception)
\* the operation ends with HTTP 503 UpstreamUnavailable having issued
\* nothing but the ping.
C1_PingGatesEveryOperation ==
    /\ Len(Issued) > 0 => Issued[1].to = "ping"
    /\ (resp.to = "ping" /\ resp.kind \in {"errbody", "fail"}) =>
            /\ Failed(503, "UpstreamUnavailable")
            /\ Len(sent) = 1
    /\ (Done /\ result.status = 503) => Len(sent) = 1

C1_Witness ==
    /\ req.op = "open" /\ IsNone(req.wallet_address)
    /\ resp.to = "ping" /\ resp.kind = "fail"
    /\ Failed(503, "UpstreamUnavailable")
    /\ sent = <<GatewayRequest("ping")>>

\* C2 as claimed: whenever a downstream call of an operation (any call after
\* the ping) fails - it raised, or it was answered with a non-success
\* response - the operation ends with UpstreamError.
C2_UpstreamFailureSurfaced ==
    (Done /\ resp.to \notin {"none", "ping"} /\ resp.kind \in {"errbody", "fail"}) =>
        (result.kind = "error" /\ result.err = "UpstreamError")

\* C3 as claimed: CLMM open without a usable price range never issues the
\* wallet-list or pool-list request, and swap execute with a malformed
\* trading pair never issues the wallet-list request.
C3_ValidationBeforeCalls ==
    /\ (req.op = "open" /\ ~price_range(req).ok) =>
            (~IssuedTo("wallet") /\ ~IssuedTo("pools"))
    /\ (req.op = "execute" /\ ~split_trading_pair(req.trading_pair).ok) =>
            ~IssuedTo("wallet")

\* C4: when a transaction endpoint (execute-swap, open, add, remove, close,
\* collect-fees) answers with success, the operation reports the first
\* non-empty of signature, txHash, hash, in that order; when all three are
\* missing or empty it fails with NoTransactionHash - for open whatever the
\* position address is, the hash check coming first.
C4_TransactionHashPriority ==
    (Done /\ req.op \in MutatingOps /\ resp.to = req.op /\ resp.kind = "ok") =>
        LET candidates == <<resp.body.signature, resp.body.txHash, resp.body.hash>>
            NonEmpty == {k \in 1..3 : TruthyStr(candidates[k])}
        IN  IF NonEmpty = {}
            THEN Failed(500, "NoTransactionHash")
            ELSE LET k == CHOOSE k \in NonEmpty : \A j \in NonEmpty : k <= j IN
                 /\ result.err # "NoTransactionHash"
                 /\ result.kind = "ok" =>
                        result.body.transaction_hash = Val(candidates[k])
                 /\ result.kind = "error" =>
                        (req.op = "open" /\ result.err = "NoPositionAddress")

C4_Witness ==
    /\ Done /\ req.op = "close" /\ resp.to = "close" /\ resp.kind = "ok"
    /\ resp.body.signature = Some("") /\ resp.body.txHash = Some("tx")
    /\ resp.body.hash = Some("hs")
    /\ result.kind = "ok" /\ result.body.transaction_hash = "tx"

\* C5: within one operation no endpoint is requested twice, whether its call
\* succeeded or failed, and nothing outside the operation's fixed set is
\* requested: the ping, the wallet list, the pool list (open and pool-info
\* only), the position read (collect-fees and position-info only) and the
\* operation's own endpoint.
AllowedEndpoints(op) ==
    {"ping", OwnEndpoint(op)}
    \cup (IF op \in WalletOps \cup {"position_info"} THEN {"wallet"} ELSE {})
    \cup (IF op \in {"open", "pool_info"} THEN {"pools"} ELSE {})
    \cup (IF op \in {"collect", "position_info"} THEN {"position"} ELSE {})

C5_EachRequestAtMostOnce ==
    /\ \A i, j \in 1..Len(Issued) : Issued[i].to = Issued[j].to => i = j
    /\ \A i \in 1..Len(Issued) : Issued[i].to \in AllowedEndpoints(req.op)
    /\ (resp.kind = "fail" /\ resp.to # "ping") => Done

C5_Witness ==
    /\ Done /\ req.op = "collect" /\ resp.to = "collect" /\ resp.kind = "fail"
    /\ Len(sent) = 4
    /\ sent[2].to = "wallet" /\ sent[3].to = "position" /\ sent[4].to = "collect"

\* C6: pool resolution (pool-info and CLMM open) takes the first pool, in
\* upstream list order, whose (baseSymbol, quoteSymbol) or (base, quote)
\* equals the requested pair, and sends that pool's address in the
\* pool-detail / open request - never a later match's; when no pool matches
\* (or the list is empty) the operation fails with PoolNotFound (404) and
\* issues neither request.
C6_FirstMatchingPool ==
    LET tp == split_trading_pair(req.trading_pair) IN
    (req.op \in {"pool_info", "open"} /\ resp.to = "pools" /\ resp.kind = "ok" /\ tp.ok) =>
        LET Matching == {i \in 1..Len(resp.body) :
                            \/ /\ resp.body[i].baseSymbol = Some(tp.base)
                               /\ resp.body[i].quoteSymbol = Some(tp.quote)
                            \/ /\ resp.body[i].base = Some(tp.base)
                               /\ resp.body[i].quote = Some(tp.quote)}
        IN  IF Matching = {}
            THEN Failed(404, "PoolNotFound") /\ ~IssuedTo(OwnEndpoint(req.op))
            ELSE LET first == CHOOSE i \in Matching : \A j \in Matching : i <= j IN
                 \/ /\ pc = "call"
                    /\ pending[1].to = OwnEndpoint(req.op)
                    /\ Some(pending[1].poolAddress) = resp.body[first].address
                 \/ /\ Done /\ result.kind = "error" /\ pending = <<>>
                    /\ ~IssuedTo(OwnEndpoint(req.op))
                    /\ \/ ~TruthyStr(resp.body[first].address)
                       \/ result.err = "ValidationError"

C6_Witness ==
    /\ req.op = "open" /\ resp.to = "pools" /\ resp.kind = "ok"
    /\ req.trading_pair = DefaultPair
    /\ Len(resp.body) = 2
    /\ resp.body[1] = Pool(Some(<<"A">>), Some(<<"B">>), None, None, Some("P1"))
    /\ resp.body[2] = Pool(None, None, Some(<<"A">>), Some(<<"B">>), Some("P2"))
    /\ pc = "call" /\ pending[1].to = "open" /\ pending[1].poolAddress = "P1"

\* C7: in swap execute, CLMM open, add, remove, close, collect-fees and
\* positions-owned, a non-empty wallet_address is the address of every
\* request that carries one and no wallet list is requested; without it the
\* wallet list is requested and the address is the first address of the
\* first wallet entry of network_id's chain; when that entry is missing or
\* holds no (non-empty) address the operation fails with NoWalletConfigured
\* (400) and its own endpoint is never requested.  The resolved address is
\* kept for the rest of the operation.
CarriesAddress(r) == r.to \notin {"ping", "wallet", "pools", "pool_detail", "quote"}

C7_WalletState ==
    req.op \in WalletOps =>
        /\ \A i \in 1..Len(Issued) :
                CarriesAddress(Issued[i]) => Issued[i].address = loc.wallet_address
        /\ TruthyStr(req.wallet_address) =>
                /\ ~IssuedTo("wallet")
                /\ loc.wallet_address \in {"", Val(req.wallet_address)}
                /\ \A i \in 1..Len(Issued) :
                        CarriesAddress(Issued[i]) =>
                            Issued[i].address = Val(req.wallet_address)
        /\ (~TruthyStr(req.wallet_address) /\ IssuedTo(OwnEndpoint(req.op))) =>
                IssuedTo("wallet")
        /\ (resp.to = "wallet" /\ resp.kind = "ok") =>
                LET chain == SubSeq(req.network, 1, FirstHyphen(req.network) - 1)
                    OfChain == {i \in 1..Len(resp.body) : resp.body[i].chain = Some(chain)}
                    first == CHOOSE i \in OfChain : \A j \in OfChain : i <= j
                    HasDefault == /\ OfChain # {}
                                  /\ Len(resp.body[first].walletAddresses) > 0
                                  /\ resp.body[first].walletAddresses[1] # ""
                IN  IF HasDefault
                    THEN /\ pc = "call" \/ result.err = "MalformedIdentifier"
                         /\ loc.wallet_address = resp.body[first].walletAddresses[1]
                    ELSE Failed(400, "NoWalletConfigured")
        /\ (Done /\ result.err = "NoWalletConfigured") =>
                ~IssuedTo(OwnEndpoint(req.op))

WalletKept ==
    (loc.wallet_address # "" /\ pc' # "idle") => loc'.wallet_address = loc.wallet_address

C7_WalletResolution == []C7_WalletState /\ [][WalletKept]_vars

C7_Witness ==
    /\ req.op = "close" /\ IsNone(req.wallet_address)
    /\ resp.to = "wallet" /\ resp.kind = "ok"
    /\ resp.body = <<WalletEntry(<<"e">>, <<"W3">>), WalletEntry(<<"s">>, <<"W1", "W2">>)>>
    /\ pc = "call" /\ pending[1].to = "close" /\ pending[1].address = "W1"

\* C8: the bounds of every CLMM open request are, in 1/Pct units: the
\* request's lower_price and upper_price when both are present, unchanged
\* and unordered, whatever center and widths come with them; otherwise, when
\* price and both widths are present, price * (1 - lower_width_pct / 100) and
\* price * (1 + upper_width_pct / 100); otherwise no open request is issued
\* and the operation, once its pool is resolved, fails with ValidationError.
ExplicitBounds == ~IsNone(req.lower_price) /\ ~IsNone(req.upper_price)
CenterAndWidths ==
    ~IsNone(req.price) /\ ~IsNone(req.lower_width_pct) /\ ~IsNone(req.upper_width_pct)

C8_PriceRange ==
    req.op = "open" =>
        /\ \A i \in 1..Len(Issued) :
            Issued[i].to = "open" =>
                IF ExplicitBounds
                THEN /\ Issued[i].lowerPrice = Val(req.lower_price) * Pct
                     /\ Issued[i].upperPrice = Val(req.upper_price) * Pct
                ELSE /\ CenterAndWidths
                     /\ Issued[i].lowerPrice * 100 =
                            Val(req.price) * Pct * (100 - Val(req.lower_width_pct))
                     /\ Issued[i].upperPrice * 100 =
                            Val(req.price) * Pct * (100 + Val(req.upper_width_pct))
        /\ (loc.pool_address # "" /\ (ExplicitBounds \/ CenterAndWidths)) =>
                IssuedTo("open")
        /\ (loc.pool_address # "" /\ ~ExplicitBounds /\ ~CenterAndWidths) =>
                Failed(400, "ValidationError")

C8_Witness ==
    /\ req.op = "open" /\ pc = "call" /\ pending[1].to = "open"
    /\ req.lower_price = Some(2) /\ req.upper_price = Some(1)
    /\ req.price = Some(1) /\ req.lower_width_pct = Some(50)
    /\ req.upper_width_pct = Some(50)
    /\ pending[1].lowerPrice = 2 * Pct /\ pending[1].upperPrice = 1 * Pct

\* C9: every CLMMPosition returned by position-info or positions-owned has
\* in_range true exactly when current, lower and upper price are all
\* positive and lower <= current <= upper, an absent, null or zero upstream
\* price / lowerPrice / upperPrice counting as 0; an upstream inRange member
\* has no influence.
AsNumber(j) == IF j.t = "num" THEN j.v ELSE 0

InRangeOf(raw) ==
    /\ AsNumber(raw.price) > 0
    /\ AsNumber(raw.lowerPrice) > 0
    /\ AsNumber(raw.upperPrice) > 0
    /\ AsNumber(raw.lowerPrice) <= AsNumber(raw.price)
    /\ AsNumber(raw.price) <= AsNumber(raw.upperPrice)

C9_InRangeDerived ==
    /\ (Done /\ req.op = "position_info" /\ result.kind = "ok") =>
            /\ resp.to = "position"
            /\ result.body.in_range = InRangeOf(resp.body)
            /\ result.body.current_price = AsNumber(resp.body.price)
            /\ result.body.lower_price = AsNumber(resp.body.lowerPrice)
            /\ result.body.upper_price = AsNumber(resp.body.upperPrice)
    /\ (Done /\ req.op = "owned" /\ result.kind = "ok") =>
            /\ resp.to = "positions"
            /\ \A i \in 1..Len(result.body) :
                    result.body[i].in_range = InRangeOf(resp.body.positions[i])

C9_Witness ==
    /\ Done /\ req.op = "position_info" /\ result.kind = "ok"
    /\ resp.body.inRange = Some(TRUE)
    /\ resp.body.price = JNum(1) /\ resp.body.lowerPrice = JNull
    /\ resp.body.upperPrice = JNum(2)
    /\ result.body.in_range = FALSE

\* C10: a successful CLMM open reports status "submitted", a transaction
\* hash and a position address (positionAddress, else position) from the
\* upstream response, the pool address and the bounds of the open request it
\* sent, and the request's trading pair; the network of the open request is
\* what follows the first hyphen of network_id; a response with a hash but
\* no position address fails with NoPositionAddress.
C10_OpenResult ==
    (Done /\ req.op = "open" /\ resp.to = "open" /\ resp.kind = "ok") =>
        LET o == sent[Len(sent)]
            b == resp.body
            HasHash == TruthyStr(b.signature) \/ TruthyStr(b.txHash) \/ TruthyStr(b.hash)
            HasPosition == TruthyStr(b.positionAddress) \/ TruthyStr(b.position)
        IN  /\ o.to = "open"
            /\ \E k \in 1..Len(req.network) :
                    /\ req.network[k] = Hyphen
                    /\ \A j \in 1..(k-1) : req.network[j] # Hyphen
                    /\ o.network = SubSeq(req.network, k + 1, Len(req.network))
            /\ result.kind = "ok" <=> (HasHash /\ HasPosition)
            /\ (HasHash /\ ~HasPosition) => Failed(500, "NoPositionAddress")
            /\ result.kind = "ok" =>
                    /\ result.body.status = "submitted"
                    /\ Some(result.body.transaction_hash) \in {b.signature, b.txHash, b.hash}
                    /\ result.body.position_address =
                            IF TruthyStr(b.positionAddress) THEN Val(b.positionAddress)
                            ELSE Val(b.position)
                    /\ result.body.pool_address = o.poolAddress
                    /\ result.body.trading_pair = req.trading_pair
                    /\ result.body.lower_price = o.lowerPrice
                    /\ result.body.upper_price = o.upperPrice

C10_Witness ==
    /\ Done /\ req.op = "open" /\ resp.to = "open" /\ resp.kind = "ok"
    /\ req.network = DefaultNetwork
    /\ sent[Len(sent)].network = <<"m", "-", "b">>
    /\ resp.body.signature = Some("sg")
    /\ resp.body.positionAddress = Some("pa") /\ resp.body.position = Some("pp")
    /\ result.kind = "ok"
    /\ result.body.transaction_hash = "sg" /\ result.body.position_address = "pa"
    /\ result.body.lower_price = 1 * Pct /\ result.body.upper_price = 2 * Pct

\* C11: in collect-fees the position read is issued and answered before the
\* collect-fees request goes out; the fee amounts kept from that read stay
\* as they are until the operation ends, and the reported base_fee_collected
\* / quote_fee_collected are those amounts - absent when the read had none,
\* null or zero - whatever the collect-fees call answers.
Snapshot(j) == IF j.t = "num" /\ j.v # 0 THEN Some(j.v) ELSE None

C11_ReadBeforeCollect ==
    req.op = "collect" =>
        /\ pc = "position" => ~IssuedTo("collect")
        /\ IssuedTo("collect") =>
                \E i \in 1..Len(Issued) :
                    /\ Issued[i].to = "position"
                    /\ \A j \in 1..i : Issued[j].to # "collect"
        /\ (Done /\ result.kind = "ok") =>
                /\ resp.to = "collect"
                /\ result.body.base_fee_collected = Snapshot(loc.base_fee)
                /\ result.body.quote_fee_collected = Snapshot(loc.quote_fee)

C11_SnapshotTaken ==
    req.op = "collect" =>
        /\ (pc = "position" /\ pc' = "call") =>
                /\ resp'.to = "position"
                /\ Snapshot(loc'.base_fee) = Snapshot(resp'.body.baseFeeAmount)
                /\ Snapshot(loc'.quote_fee) = Snapshot(resp'.body.quoteFeeAmount)
        /\ (IssuedTo("collect") /\ pc' # "idle") =>
                /\ loc'.base_fee = loc.base_fee
                /\ loc'.quote_fee = loc.quote_fee

C11_FeeSnapshot == []C11_ReadBeforeCollect /\ [][C11_SnapshotTaken]_vars

C11_Witness ==
    /\ Done /\ req.op = "collect" /\ resp.to = "collect" /\ resp.kind = "ok"
    /\ loc.base_fee = JNum(1) /\ loc.quote_fee = JNum(0)
    /\ result.kind = "ok"
    /\ result.body.base_fee_collected = Some(1)
    /\ result.body.quote_fee_collected = None

C13_QuoteDefaults ==
    req.op = "quote" =>
        /\ \A i \in 1..Len(Issued) :
                (Issued[i].to = "quote" /\ req.slippage_pct = JAbsent) =>
                    Issued[i].slippagePct = Some(10)
        /\ (Done /\ result.kind = "ok") =>
                LET b == result.body IN
                /\ resp.to = "quote"
                /\ req.slippage_pct = JAbsent => b.slippage_pct = 10
                /\ b.expected_amount =
                        IF resp.body.expectedAmount.t = "num"
                           /\ resp.body.expectedAmount.v # 0
                        THEN Some(resp.body.expectedAmount.v) ELSE None
                /\ b.gas_estimate =
                        IF resp.body.gasEstimate.t = "num" /\ resp.body.gasEstimate.v # 0
                        THEN Some(resp.body.gasEstimate.v) ELSE None
                /\ b.expected_amount # Some(0) /\ b.gas_estimate # Some(0)
                /\ req.trading_pair = b.base \o <<Hyphen>> \o b.quote
                /\ \A k \in 1..Len(b.base) : b.base[k] # Hyphen
                /\ \A k \in 1..Len(b.quote) : b.quote[k] # Hyphen
                /\ b.amount = req.amount

C13_Witness ==
    /\ Done /\ req.op = "quote" /\ req.slippage_pct = JAbsent /\ req.amount = 2
    /\ sent[Len(sent)].to = "quote" /\ sent[Len(sent)].slippagePct = Some(10)
    /\ resp.to = "quote" /\ resp.kind = "ok"
    /\ resp.body.expectedAmount = JNum(0) /\ resp.body.gasEstimate = JNum(1)
    /\ result.kind = "ok"
    /\ result.body.slippage_pct = 10 /\ result.body.amount = 2
    /\ result.body.expected_amount = None /\ result.body.gas_estimate = Some(1)

\* C15: when the calling context is cancelled while an operation is
\* suspended at a network call - the ping and the wallet-list call of the
\* default-wallet lookup included - the operation ends with the cancellation
\* error and nothing else: no success object, no 503 of a false ping, no
\* NoWalletConfigured, no HTTP 500; and it issues no further request.
C15_CancelledState ==
    resp.kind = "cancelled" =>
        /\ Done /\ pending = <<>>
        /\ result.kind = "cancelled" /\ result.err = "CancelledError"
        /\ Len(sent) > 0 /\ sent[Len(sent)].to = resp.to

C15_CancelStep ==
    resp'.kind = "cancelled" => (sent' = sent /\ pending' = <<>> /\ pc' = "done")

C15_CancellationPropagates == []C15_CancelledState /\ [][C15_CancelStep]_vars

C15_Witness ==
    /\ req.op = "position_info" /\ resp = Answer("wallet", "cancelled", None)
    /\ Len(sent) = 2 /\ Done /\ result.kind = "cancelled"

\* C14: under every interleaving of concurrent operations at their network
\* calls, the requests an operation has issued, its locals (parsed chain and
\* network, resolved wallet and pool address, price range, fee snapshot) and
\* its result are those it comes to when run alone over the answers it got.
RECURSIVE Alone(_, _)
Alone(request, answers) ==
    IF answers = <<>>
    THEN [loc |-> LocInit, sent |-> <<>>, pending |-> <<GatewayRequest("ping")>>,
          result |-> NoResult]
    ELSE LET before == Alone(request, SubSeq(answers, 1, Len(answers) - 1))
             a == answers[Len(answers)]
             st == Handler(request, before.loc, before.pending[1].to, a)
         IN  [loc |-> st.loc, sent |-> before.sent \o before.pending,
              pending |-> st.send, result |-> st.result]

C16_SessionState ==
    /\ \A i \in 1..Len(session) : session[i] = "open" => i = Len(session)
    /\ session = <<>> => \A p \in Tasks : tasks[p].sent = <<>>
    /\ client_close(client_close(session)) = client_close(session)
    /\ (session = <<>> \/ session[Len(session)] = "closed") =>
            client_close(session) = session
    /\ \A i \in 1..Len(client_close(session)) : client_close(session)[i] = "closed"

C16_SessionStep ==
    IF \E p \in Tasks : Len(tasks'[p].sent) > Len(tasks[p].sent)
    THEN /\ session' # <<>> /\ session'[Len(session')] = "open"
         /\ (session # <<>> /\ session[Len(session)] = "open") => session' = session
         /\ (session = <<>> \/ session[Len(session)] = "closed") =>
                session' = session \o <<"open">>
    ELSE session' # session =>
            /\ session # <<>>
            /\ Len(session') = Len(session)
            /\ session[Len(session)] = "open"
            /\ \A i \in 1..Len(session') : session'[i] = "closed"

C16_SessionHandle == []C16_SessionState /\ [][C16_SessionStep]_vars

C16_Witness ==
    /\ session = <<"closed", "open">>
    /\ tasks[1].pc = "pools" /\ Len(tasks[1].sent) = 3
    /\ tasks[2].pc = "position"

\* C17: parse_network_id splits at the first hyphen only - the chain holds
\* no hyphen and everything after the first hyphen, further hyphens
\* included, is the network - so composing what it returns gives the id
\* back, and the handler works with exactly that chain and network; for an
\* id with no hyphen it fails, the operation ends with HTTP 400
\* MalformedIdentifier once its ping is answered true, and its own endpoint
\* is never called.
C17_ParseNetworkId ==
    LET p == parse_network_id(req.network)
        id_has_hyphen == \E i \in 1..Len(req.network) : req.network[i] = Hyphen
    IN  pc # "idle" =>
            /\ p.ok <=> id_has_hyphen
            /\ id_has_hyphen =>
                    /\ \A i \in 1..Len(p.chain) : p.chain[i] # Hyphen
                    /\ compose_network_id(p.chain, p.network) = req.network
                    /\ Len(Issued) >= 2 =>
                            loc.chain = p.chain /\ loc.network = p.network
            /\ ~id_has_hyphen =>
                    /\ Len(Issued) <= 1
                    /\ ~IssuedTo(OwnEndpoint(req.op))
                    /\ (resp.to = "ping" /\ resp.kind = "ok" /\ ping(resp)) =>
                            Failed(400, "MalformedIdentifier")

C17_Witness ==
    /\ Done /\ result.kind = "ok"
    /\ req.network = <<"s", "-", "-">>
    /\ loc.chain = <<"s">> /\ loc.network = <<"-">>
    /\ IssuedTo(OwnEndpoint(req.op))

\* C18: every entry of the network listing carries the network_id composed
\* of its chain, a hyphen and its network, for a chain and a network that
\* upstream listed together; when the chain holds no hyphen,
\* parse_network_id gives back exactly that chain and that network,
\* whatever hyphens the network holds.
C18_ComposeThenParse ==
    (Len(text) = 2 /\ text[2].fn = "parse_network_id") =>
        LET item == text[2].arg
            p == text[2].out
            chains == text[1].arg.body.chains[1]
        IN  /\ text[1].out.status = 200
            /\ \E c \in 1..Len(chains) :
                    /\ chains[c].chain = item.chain
                    /\ \E n \in 1..Len(chains[c].networks) :
                            chains[c].networks[n] = item.network
            /\ item.network_id = item.chain \o <<Hyphen>> \o item.network
            /\ (\A i \in 1..Len(item.chain) : item.chain[i] # Hyphen) =>
                    p.ok /\ p.chain = item.chain /\ p.network = item.network

C18_Witness ==
    /\ Len(text) = 2 /\ text[2].fn = "parse_network_id"
    /\ text[2].arg.chain = <<"s">>
    /\ text[2].arg.network = <<"m", "-", "b">>
    /\ text[2].arg.network_id = DefaultNetwork
    /\ text[2].out = [ok |-> TRUE, chain |-> <<"s">>, network |-> <<"m", "-", "b">>]

\* a name of non-empty components, each made of the characters told by
\* lower-case letters alone (digits = FALSE) or with digits (digits = TRUE)
SnakeName(name, digits) ==
    /\ \A i \in 1..Len(name) :
            \/ name[i] = Underscore
            \/ IsLower(name[i])
            \/ digits /\ IsDigit(name[i])
    /\ \A c \in 1..Len(split_underscore(name)) : split_underscore(name)[c] # <<>>

NoAcronymComponent(name) ==
    \A c \in 1..Len(split_underscore(name)) : split_underscore(name)[c] \notin acronyms

\* C19: for every name of non-empty, underscore-separated components of
\* lower-case letters none of which is url, cu, id, api, rpc or uri,
\* camel_to_snake(snake_to_camel(name)) is the name again.
C19_RoundTrip ==
    (/\ Len(text) = 2
     /\ text[1].fn = "snake_to_camel" /\ text[2].fn = "camel_to_snake"
     /\ SnakeName(text[1].arg, FALSE)
     /\ NoAcronymComponent(text[1].arg))
        => text[2].out = text[1].arg

\* the component with its first character upper-cased and the rest as given
first_upper(component) ==
    [i \in 1..Len(component) |->
        IF i = 1 THEN char_upper(component[i]) ELSE component[i]]

\* C20: snake_to_camel of a name of lower-case letters, digits and
\* underscores keeps the first component as given, renders each later
\* component that is one of url, cu, id, api, rpc, uri in upper case and
\* every other later component with only its first letter upper-cased, and
\* concatenates them without separators.
C20_WireCase ==
    (Len(text) >= 1 /\ text[1].fn = "snake_to_camel"
     /\ \A i \in 1..Len(text[1].arg) :
            \/ text[1].arg[i] = Underscore
            \/ IsLower(text[1].arg[i])
            \/ IsDigit(text[1].arg[i]))
        => LET components == split_underscore(text[1].arg) IN
           text[1].out =
                join([c \in 1..Len(components) |->
                        IF c = 1 THEN components[1]
                        ELSE IF components[c] \in
                                {<<"u", "r", "l">>, <<"c", "u">>, <<"i", "d">>,
                                 <<"a", "p", "i">>, <<"r", "p", "c">>,
                                 <<"u", "r", "i">>}
                        THEN str_upper(components[c])
                        ELSE first_upper(components[c])])

\* the adapter-case name of an upstream key, the two aliases first
adapter_key(key) ==
    IF key = k_baseSymbol THEN k_base
    ELSE IF key = k_quoteSymbol THEN k_quote
    ELSE camel_to_snake(key)

\* output is input with the keys of every object rewritten, at every depth:
\* texts are equal, lists have equal lengths and rewritten elements, an
\* object has the rewritten keys of the input object, each with the
\* rewritten value of an input item of that key (a trading_pair built from
\* base and quote aside)
RECURSIVE Rewritten(_, _)
Rewritten(input, output) ==
    /\ output.t = input.t
    /\ input.t = "str" => output = input
    /\ input.t = "list" =>
            /\ Len(output.v) = Len(input.v)
            /\ \A i \in 1..Len(input.v) : Rewritten(input.v[i].v, output.v[i].v)
    /\ input.t = "dict" =>
            /\ {output.v[j].k : j \in 1..Len(output.v)} \ {k_trading_pair}
                    = {adapter_key(input.v[i].k) : i \in 1..Len(input.v)} \ {k_trading_pair}
            /\ \A j \in 1..Len(output.v) :
                    \/ /\ output.v[j].k = k_trading_pair
                       /\ has_key(output.v, k_base) /\ has_key(output.v, k_quote)
                    \/ \E i \in 1..Len(input.v) :
                            /\ adapter_key(input.v[i].k) = output.v[j].k
                            /\ Rewritten(input.v[i].v, output.v[j].v)

\* C21: what normalize_gateway_response returns is its argument with every
\* key of every object, at every nesting depth - objects in objects and
\* objects in lists - rewritten to adapter case, baseSymbol / quoteSymbol
\* becoming base / quote; list lengths and order, the nesting and the texts
\* are those of the argument.
C21_EveryKeyRewritten ==
    (Len(text) = 1 /\ text[1].fn = "normalize_gateway_response") =>
        Rewritten(text[1].arg, text[1].out)

\* the last item of an object whose key is rewritten to key: the one whose
\* value the normalized object holds under key
LastOf(items, key) ==
    CHOOSE i \in 1..Len(items) :
        /\ adapter_key(items[i].k) = key
        /\ \A j \in (i+1)..Len(items) : adapter_key(items[j].k) # key

\* in the normalized object output of the object input, and in every object
\* normalized inside it: with base and quote both present trading_pair is
\* base-quote, otherwise trading_pair is present only as upstream's own
RECURSIVE Synthesized(_, _)
Synthesized(input, output) ==
    LET both == has_key(output.v, k_base) /\ has_key(output.v, k_quote)
        upstream == \E i \in 1..Len(input.v) : adapter_key(input.v[i].k) = k_trading_pair
    IN  /\ both =>
            /\ has_key(output.v, k_trading_pair)
            /\ dict_get(output.v, k_trading_pair) =
                    Str(dict_get(output.v, k_base).s \o <<Hyphen>>
                        \o dict_get(output.v, k_quote).s)
        /\ ~both =>
            /\ has_key(output.v, k_trading_pair) <=> upstream
            /\ upstream => dict_get(output.v, k_trading_pair)
                                = input.v[LastOf(input.v, k_trading_pair)].v
        /\ \A j \in 1..Len(output.v) :
                output.v[j].k # k_trading_pair =>
                    LET value == input.v[LastOf(input.v, output.v[j].k)].v
                        normalized == output.v[j].v
                    IN  /\ (value.t = "dict" /\ normalized.t = "dict") =>
                                Synthesized(value, normalized)
                        /\ (value.t = "list" /\ normalized.t = "list") =>
                                \A e \in 1..Len(normalized.v) :
                                    (value.v[e].v.t = "dict" /\ normalized.v[e].v.t = "dict")
                                        => Synthesized(value.v[e].v, normalized.v[e].v)

C23_PoolType ==
    (Done /\ req.op = "pool_info" /\ resp.to = "pool_detail" /\ result.kind = "ok") =>
        /\ result.body.type \in {"clmm", "router"}
        /\ result.body.type = "clmm" <=>
                (resp.body.binStep # JAbsent \/ resp.body.bin_step # JAbsent)

C23_Witness ==
    /\ Done /\ req.op = "pool_info" /\ resp.to = "pool_detail"
    /\ resp.body.binStep = JNull /\ resp.body.bin_step = JAbsent
    /\ result.kind = "ok" /\ result.body.type = "clmm"

C25_StartStep ==
    (/\ docker'.last.op = "start"
     /\ docker.containers # <<>>
     /\ docker'.last.message \notin {"DockerException", "Failed to start"})
        => /\ docker'.last.created > docker.created
           /\ docker'.containers =
                <<Container(docker'.last.created, "running", Val(docker'.last.config))>>

C25_StartReplaces == [][C25_StartStep]_vars

\* some task issues a request in this step
IssuesRequest == \E p \in Tasks : Len(tasks'[p].sent) > Len(tasks[p].sent)

\* C26: however the requests of concurrent operations and close() calls
\* interleave, at most one of the sessions ever created is unclosed and it
\* is the one the client references; a session is created only by a request
\* that finds no session or a closed one; an unclosed session stays the
\* referenced one until close() closes it; and a request issued after
\* close() goes out on a fresh session, its operation carrying on.
C26_OneUnclosed ==
    \A i, j \in 1..Len(session) :
        (session[i] = "open" /\ session[j] = "open") => (i = j /\ i = Len(session))

C26_Step ==
    /\ Len(session') >= Len(session)
    /\ Len(session') > Len(session) =>
            /\ IssuesRequest
            /\ session = <<>> \/ session[Len(session)] = "closed"
            /\ session' = Append(session, "open")
    /\ (session # <<>> /\ session[Len(session)] = "open") =>
            /\ Len(session') = Len(session)
            /\ session'[Len(session')] = "closed" => ~IssuesRequest
    /\ (IssuesRequest /\ session # <<>> /\ session[Len(session)] = "closed") =>
            /\ session' = Append(session, "open")
            /\ \A p \in Tasks :
                    Len(tasks'[p].sent) > Len(tasks[p].sent) =>
                        tasks'[p].pc \notin {"idle", "call", "done"}

C26_Interleavings == []C26_OneUnclosed /\ [][C26_Step]_vars

\* both operations have requests out, the later ones on the session created
\* after a close()
C26_Witness ==
    /\ session = <<"closed", "open">>
    /\ Len(tasks[1].sent) = 1 /\ tasks[1].pc = "ping"
    /\ Len(tasks[2].sent) = 2 /\ tasks[2].pc \notin {"idle", "call", "done"}

\* C27: in swap execute and the CLMM open, add, remove, close and
\* collect-fees operations the mutating request goes out exactly when every
\* earlier step succeeded: it is never out after an earlier request was
\* answered with a failure, and when it is out the network id (and trading
\* pair) parsed, the wallet is resolved, for open the pool is resolved and
\* the price range valid, for collect-fees the position was read; an
\* operation that ends without it ends with an error of an earlier step.
\* It goes out once and is the last request of the operation: an error
\* found after it (upstream failure, NoTransactionHash, NoPositionAddress)
\* is returned with no further request.
C27_MutationAfterSuccess ==
    req.op \in MutatingOps =>
        LET own == req.op IN
        /\ (resp.to \notin {"none", own} /\ resp.kind # "ok") => ~IssuedTo(own)
        /\ IssuedTo(own) =>
                /\ Issued[1].to = "ping"
                /\ Issued[Len(Issued)].to = own
                /\ Cardinality({i \in 1..Len(Issued) : Issued[i].to = own}) = 1
                /\ parse_network_id(req.network).ok
                /\ own \in PairOps => split_trading_pair(req.trading_pair).ok
                /\ loc.wallet_address # ""
                /\ own = "open" => (loc.pool_address # "" /\ price_range(req).ok)
                /\ own = "collect" => IssuedTo("position")
        /\ (Done /\ ~IssuedTo(own)) =>
                /\ result.kind # "ok"
                /\ result.err \notin {"NoTransactionHash", "NoPositionAddress"}
        /\ (Done /\ IssuedTo(own)) =>
                /\ pending = <<>>
                /\ resp.to = own
                /\ result.kind = "error" =>
                        result.err \in {"UpstreamError", "NoTransactionHash",
                                        "NoPositionAddress"}

\* C28: a configuration update issues its update requests in the order of
\* the mapping, one per key, a key with an underscore converted by
\* snake_to_camel and any other key as given; when every request succeeds
\* there is one request per key and the reported count is the number of
\* keys; when the k-th request fails, the k requests so far are all that
\* was issued - the first k-1 stay applied, no later key is attempted - and
\* the caller receives an error.
C28_ConfigUpdate ==
    (Len(text) = 1 /\ text[1].fn = "update_config" /\ text[1].arg.ping = "ok") =>
        LET updates == text[1].arg.config_updates
            answers == text[1].arg.answers
            out == text[1].out
            failed == {i \in 1..Len(updates) : answers[i] # "ok"}
        IN  /\ Len(out.sent) <= Len(updates)
            /\ \A i \in 1..Len(out.sent) :
                    /\ out.sent[i].namespace = text[1].arg.namespace
                    /\ out.sent[i].value = updates[i].value
                    /\ out.sent[i].path =
                        IF \E c \in 1..Len(updates[i].path) : updates[i].path[c] = "_"
                        THEN snake_to_camel(updates[i].path)
                        ELSE updates[i].path
            /\ failed = {} =>
                    /\ out.status = 200
                    /\ Len(out.sent) = Len(updates)
                    /\ out.count = Len(updates)
            /\ failed # {} =>
                    LET k == CHOOSE i \in failed : \A j \in failed : i <= j IN
                    /\ Len(out.sent) = k
                    /\ out.status = 500

\* C29: in CLMM open, when the first pool of the upstream list that matches
\* the trading pair has no address or an empty one, the operation fails
\* with PoolNotFound (404) and no open request is issued, whatever the
\* later pools of the list are.
C29_AddresslessFirstMatch ==
    LET tp == split_trading_pair(req.trading_pair) IN
    (req.op = "open" /\ resp.to = "pools" /\ resp.kind = "ok" /\ tp.ok) =>
        LET Matching == {i \in 1..Len(resp.body) :
                            \/ /\ resp.body[i].baseSymbol = Some(tp.base)
                               /\ resp.body[i].quoteSymbol = Some(tp.quote)
                            \/ /\ resp.body[i].base = Some(tp.base)
                               /\ resp.body[i].quote = Some(tp.quote)}
        IN  \A first \in Matching :
                ((\A j \in Matching : first <= j) /\ ~TruthyStr(resp.body[first].address))
                    => Failed(404, "PoolNotFound") /\ ~IssuedTo("open")

C29_Witness ==
    /\ req.op = "open" /\ resp.to = "pools" /\ resp.kind = "ok"
    /\ req.trading_pair = DefaultPair
    /\ Len(resp.body) = 2
    /\ PoolMatches(resp.body[1], <<"A">>, <<"B">>)
    /\ ~TruthyStr(resp.body[1].address)
    /\ PoolMatches(resp.body[2], <<"A">>, <<"B">>)
    /\ TruthyStr(resp.body[2].address)
    /\ Failed(404, "PoolNotFound") /\ ~IssuedTo("open")

\* C30: an optional numeric input of 0 is treated like an absent one.  With
\* slippage_pct 0, absent or null, swap quote, swap execute, CLMM open and
\* add-liquidity send slippagePct 1.0 upstream and the quote reports
\* slippage_pct 1.0; with base_token_amount or quote_token_amount 0, absent
\* or null, open and add-liquidity leave the amount out of the upstream
\* request.
C30_ZeroIsAbsent ==
    LET Unset == {JNum(0), JAbsent, JNull} IN
    /\ \A i \in 1..Len(Issued) :
        (Issued[i].to = req.op /\ req.op \in {"quote", "execute", "open", "add"}) =>
            /\ req.slippage_pct \in Unset => Issued[i].slippagePct = Some(10)
            /\ (req.op \in {"open", "add"} /\ req.base_token_amount \in Unset)
                    => Issued[i].baseTokenAmount = None
            /\ (req.op \in {"open", "add"} /\ req.quote_token_amount \in Unset)
                    => Issued[i].quoteTokenAmount = None
    /\ (Done /\ req.op = "quote" /\ result.kind = "ok" /\ req.slippage_pct \in Unset)
            => result.body.slippage_pct = 10

C30_Witness ==
    /\ req.op = "open" /\ pc = "call" /\ pending[1].to = "open"
    /\ req.slippage_pct = JNum(0)
    /\ req.base_token_amount = JNum(0) /\ req.quote_token_amount = JNum(2)
    /\ pending[1].slippagePct = Some(10)
    /\ pending[1].baseTokenAmount = None
    /\ pending[1].quoteTokenAmount = Some(2)


====
